---- MODULE Spec2Model ----
(***************************************************************************)
(* Model of the hybrid field-extraction engine of fluxo-cash-bot-only:     *)
(* app/extractors.py (extract_proof_data, pdf_to_image, encode_image and   *)
(* the process-wide rate-limit timestamp) and app/pdf_extractor.py         *)
(* (extract_from_pdf_text).                                                *)
(*                                                                         *)
(* Strings are sequences of one-character strings, file paths are          *)
(* sequences of path tokens, numbers are decimal records (mantissa m and   *)
(* number of fractional digits e), time is counted in whole seconds.       *)
(***************************************************************************)
EXTENDS Integers, Sequences, FiniteSets, TLC

(***************************************************************************)
(* Bounds of the model                                                     *)
(***************************************************************************)
MaxTime == 11
MaxInvocations == 3

(***************************************************************************)
(* Program constants                                                       *)
(***************************************************************************)
MIN_CALL_INTERVAL == 5
MIN_TEXT_LEN == 50
CONF_PDF_TEXT == 98
CONF_VISION_HIGH == 95
CONF_VISION_LOW == 50

Threads == {"t1", "t2"}

(***************************************************************************)
(* Python values                                                           *)
(***************************************************************************)
None == "None"
NoKey == "NoKey"
Unbound == "Unbound"

\* a JSON / Python value: None, a number m * 10^-e, a string, or a
\* non-empty list/dict ("obj")
PyNone == [t |-> "none", m |-> 0, e |-> 0, s |-> <<>>]
PyNum(m, e) == [t |-> "num", m |-> m, e |-> e, s |-> <<>>]
PyStr(s) == [t |-> "str", m |-> 0, e |-> 0, s |-> s]
ParseError == [t |-> "error", m |-> 0, e |-> 0, s |-> <<>>]
\* Python truthiness of a value
Truthy(v) ==
    CASE v.t = "none" -> FALSE
      [] v.t = "num" -> v.m # 0
      [] v.t = "str" -> v.s # <<>>
      [] OTHER -> TRUE

Digits == {"0", "1", "2", "3", "4", "5", "6", "7", "8", "9"}

DigitVal(c) ==
    CASE c = "0" -> 0 [] c = "1" -> 1 [] c = "2" -> 2 [] c = "3" -> 3
      [] c = "4" -> 4 [] c = "5" -> 5 [] c = "6" -> 6 [] c = "7" -> 7
      [] c = "8" -> 8 [] c = "9" -> 9

(***************************************************************************)
(* String helpers (str.replace, str.strip, str.split, `in`)                *)
(***************************************************************************)
Contains(s, c) == \E i \in 1..Len(s) : s[i] = c

RECURSIVE RemoveChar(_, _)
RemoveChar(s, c) ==
    IF s = <<>> THEN <<>>
    ELSE IF Head(s) = c THEN RemoveChar(Tail(s), c)
    ELSE <<Head(s)>> \o RemoveChar(Tail(s), c)

RECURSIVE ReplaceChar(_, _, _)
ReplaceChar(s, c, d) ==
    IF s = <<>> THEN <<>>
    ELSE <<IF Head(s) = c THEN d ELSE Head(s)>> \o ReplaceChar(Tail(s), c, d)

\* v.replace('R$', ''): one left-to-right pass over non-overlapping matches
RECURSIVE RemoveRS(_)
RemoveRS(s) ==
    IF Len(s) < 2 THEN s
    ELSE IF s[1] = "R" /\ s[2] = "$" THEN RemoveRS(SubSeq(s, 3, Len(s)))
    ELSE <<Head(s)>> \o RemoveRS(Tail(s))

RECURSIVE LStrip(_)
LStrip(s) == IF s # <<>> /\ Head(s) = " " THEN LStrip(Tail(s)) ELSE s

RECURSIVE RStrip(_)
RStrip(s) ==
    IF s # <<>> /\ s[Len(s)] = " " THEN RStrip(SubSeq(s, 1, Len(s) - 1)) ELSE s

Strip(s) == RStrip(LStrip(s))

CountChar(s, c) == Cardinality({i \in 1..Len(s) : s[i] = c})

\* number of characters after the last occurrence of c (c occurs in s)
RECURSIVE LenAfterLast(_, _)
LenAfterLast(s, c) ==
    IF s = <<>> \/ s[Len(s)] = c THEN 0
    ELSE 1 + LenAfterLast(SubSeq(s, 1, Len(s) - 1), c)

(***************************************************************************)
(* float(str)                                                              *)
(***************************************************************************)
RECURSIVE DigitsValue(_)
DigitsValue(s) ==
    IF s = <<>> THEN 0
    ELSE 10 * DigitsValue(SubSeq(s, 1, Len(s) - 1)) + DigitVal(s[Len(s)])

\* Python float() on a string over digits, '.', sign, blanks and other
\* characters: surrounding blanks are ignored, then an optional sign, then
\* digits with at most one '.', at least one digit.
PyFloat(str) ==
    LET s0 == Strip(str)
        neg == s0 # <<>> /\ Head(s0) = "-"
        s1 == IF s0 # <<>> /\ Head(s0) \in {"-", "+"} THEN Tail(s0) ELSE s0
        body == RemoveChar(s1, ".")
    IN IF /\ body # <<>>
          /\ \A i \in 1..Len(body) : body[i] \in Digits
          /\ CountChar(s1, ".") <= 1
       THEN PyNum((IF neg THEN -1 ELSE 1) * DigitsValue(body),
                  IF Contains(s1, ".") THEN LenAfterLast(s1, ".") ELSE 0)
       ELSE ParseError

(***************************************************************************)
(* Currency normalization, the two copies in the code                      *)
(***************************************************************************)
\* PdfSeparators taking a period as decimal point only before exactly two digits
PdfSeparatorsTwoDigits(value_str) ==
    IF Contains(value_str, ",")
    THEN ReplaceChar(RemoveChar(value_str, "."), ",", ".")
    ELSE IF CountChar(value_str, ".") + 1 = 2 /\ LenAfterLast(value_str, ".") = 2
         THEN value_str
         ELSE RemoveChar(value_str, ".")

\* PdfSeparators that keeps the periods of an amount with a comma
PdfSeparatorsKeepPeriods(value_str) ==
    IF Contains(value_str, ",")
    THEN ReplaceChar(value_str, ",", ".")
    ELSE IF CountChar(value_str, ".") + 1 = 2 /\ LenAfterLast(value_str, ".") <= 2
         THEN value_str
         ELSE RemoveChar(value_str, ".")

\* pdf_extractor.py lines 114-129
PdfSeparators(value_str) ==
    IF Contains(value_str, ",")
    THEN ReplaceChar(RemoveChar(value_str, "."), ",", ".")
    ELSE IF CountChar(value_str, ".") + 1 = 2 /\ LenAfterLast(value_str, ".") <= 2
         THEN value_str
         ELSE RemoveChar(value_str, ".")

\* pdf_extractor.py: value_str = match.group(1).strip() ... float(value_str)
NormalizePdfValue(str) == PyFloat(PdfSeparators(Strip(str)))

\* extractors.py lines 220-235
VisionSeparators(v) ==
    IF Contains(v, ",")
    THEN ReplaceChar(RemoveChar(v, "."), ",", ".")
    ELSE IF CountChar(v, ".") + 1 = 2 /\ LenAfterLast(v, ".") <= 2
         THEN v
         ELSE RemoveChar(v, ".")

\* extractors.py: v.replace('R$','').strip() ... float(v or 0)
NormalizeVisionValue(str) ==
    LET v == VisionSeparators(Strip(RemoveRS(str)))
    IN IF v = <<>> THEN PyNum(0, 0) ELSE PyFloat(v)

(***************************************************************************)
(* File paths and the filesystem                                           *)
(***************************************************************************)
\* a path is its stem and its suffix
InputPaths == {<<"a", ".pdf">>, <<"X", ".PDF">>, <<"a", ".jpg">>, <<"a", ".txt">>}

\* Path(file_path).suffix
Suffix(p) == p[Len(p)]

\* str.lower() on an extension token
Lower(tok) ==
    CASE tok = ".PDF" -> ".pdf"
      [] OTHER -> tok

\* pdf_path.replace('.pdf', '_temp.jpg')
ReplacePdf(p) == [i \in 1..Len(p) |-> IF p[i] = ".pdf" THEN "_temp.jpg" ELSE p[i]]

\* the bytes the caller stored at each input path
InitialContent(p) ==
    IF p \notin InputPaths THEN "absent"
    ELSE CASE Lower(Suffix(p)) = ".pdf" -> "pdf"
           [] Lower(Suffix(p)) \in {".jpg", ".png"} -> "img"
           [] OTHER -> "other"

(***************************************************************************)
(* Result records                                                          *)
(***************************************************************************)
Keys(s, r, b, e, d) ==
    [sender_pix_key |-> s, receiver_pix_key |-> r, beneficiary |-> b,
     endtoend |-> e, date |-> d]

KeysNone == Keys(None, None, None, None, None)
KeysAll == Keys("sender", "receiver", "NAME", "E32", "2024-01-31")
KeysSome == Keys(None, "receiver", None, "E32", None)

\* the function returned None
NoneResult ==
    [kind |-> "none", value |-> PyNone, sender_pix_key |-> NoKey,
     receiver_pix_key |-> NoKey, beneficiary |-> NoKey, endtoend |-> NoKey,
     date |-> NoKey, method |-> NoKey, confidence |-> 0, success |-> FALSE,
     error |-> NoKey]

\* {'value': None, 'sender_pix_key': None, 'receiver_pix_key': None,
\*  'success': False, 'error': msg}
ErrorRecord(msg) ==
    [kind |-> "dict", value |-> PyNone, sender_pix_key |-> None,
     receiver_pix_key |-> None, beneficiary |-> NoKey, endtoend |-> NoKey,
     date |-> NoKey, method |-> NoKey, confidence |-> 0, success |-> FALSE,
     error |-> msg]

(***************************************************************************)
(* Text layer of a PDF as seen by extract_from_pdf_text                    *)
(***************************************************************************)
\* readable: pdfplumber opens the file and extracts without raising
\* len:      length of the concatenated page texts
\* matches:  group(1) of the PATTERNS['valor'] patterns that match, in
\*           list order
\* keys:     what the other field patterns recognize
TextLayer(rd, n, ms, ks) == [readable |-> rd, len |-> n, matches |-> ms, keys |-> ks]

\* lines 104-137: the first matching pattern whose text float() accepts
RECURSIVE FirstParsable(_)
FirstParsable(ms) ==
    IF ms = <<>> THEN PyNone
    ELSE IF NormalizePdfValue(Head(ms)) # ParseError
         THEN NormalizePdfValue(Head(ms))
         ELSE FirstParsable(Tail(ms))

(***************************************************************************)
(* Vision-model responses                                                  *)
(***************************************************************************)
\* kind: "upstream_error" (the API call raises), "malformed" (json.loads or
\*       the access to the response raises), "object" (a JSON object)
Response(k, valor, value, ks) == [kind |-> k, valor |-> valor, value |-> value, keys |-> ks]

\* the inputs of the sequential specification
MainInputs ==
    [ layers |->
        { TextLayer(FALSE, 0, <<>>, KeysNone),
          TextLayer(TRUE, 0, <<>>, KeysNone),
          TextLayer(TRUE, 10, << <<"1", "0", ",", "0", "0">> >>, KeysAll),
          TextLayer(TRUE, 200, <<>>, KeysAll),
          TextLayer(TRUE, 200, << <<"4", "9", ".", "5", "0", "0", ",", "0", "0">> >>, KeysAll),
          TextLayer(TRUE, 200, << <<"4", "9", ".", "8", "5">> >>, KeysSome),
          TextLayer(TRUE, 200, << <<"1", ",", "2", ",", "3">>, <<"7">> >>, KeysNone),
          TextLayer(TRUE, 200, << <<"1", ",", "2", ",", "3">> >>, KeysAll),
          TextLayer(TRUE, 200, << <<"0", ",", "0", "0">> >>, KeysAll) },
      responses |->
        { Response("upstream_error", PyNone, PyNone, KeysNone),
          Response("malformed", PyNone, PyNone, KeysNone),
          Response("object", PyNone, PyNone, KeysAll),
          Response("object", PyNum(0, 0), PyNum(700, 0), KeysNone),
          Response("object", PyNum(4950, 2), PyNone, KeysAll),
          Response("object", PyNum(-500, 0), PyNone, KeysAll),
          Response("object", [t |-> "obj", m |-> 0, e |-> 0, s |-> <<>>], PyNone, KeysAll),
          Response("object", PyStr(<<>>), PyNone, KeysSome),
          Response("object",
                   PyStr(<<"R", "$", " ", "4", "9", ".", "5", "0", "0", ",", "0", "0">>),
                   PyNone, KeysAll),
          Response("object", PyStr(<<"a", "b">>), PyNone, KeysAll),
          Response("object", PyStr(<<"-", "5">>), PyNone, KeysNone),
          Response("object", PyStr(<<"0", ",", "0", "0">>), PyNone, KeysAll),
          Response("object", PyStr(<<"R", "$">>), PyNone, KeysSome) } ]

\* the inputs of the concurrent specification
ConcInputs ==
    [ paths |-> {<<"a", ".pdf">>, <<"a", ".jpg">>},
      layers |->
        { TextLayer(FALSE, 0, <<>>, KeysNone),
          TextLayer(TRUE, 200, << <<"4", "9", ".", "5", "0", "0", ",", "0", "0">> >>,
                    KeysAll) },
      responses |->
        { Response("upstream_error", PyNone, PyNone, KeysNone),
          Response("object", PyNum(4950, 2), PyNone, KeysAll) } ]

(***************************************************************************)
(* State                                                                   *)
(***************************************************************************)
VARIABLES
    client,                 \* module global: an OpenAI client was configured
    PDF_SUPPORT,            \* module global: pdf2image imported
    PDF_TEXT_SUPPORT,       \* module global: pdfplumber imported
    clock,                  \* time.time()
    last_openai_call_time,  \* module global
    fs,                     \* the filesystem: path -> content
    pc,                     \* per thread: position in extract_proof_data
    file_path,              \* per thread: local file_path
    ext,                    \* per thread: local ext
    temp_file,              \* per thread: local temp_file
    wake,                   \* per thread: when time.sleep returns
    stamp,                  \* per thread: time.time() evaluated at line 193
    v,                      \* per thread: local v
    err,                    \* per thread: message of the exception in flight
    ret,                    \* per thread: the returned record
    obs,                    \* per thread: what the invocation did (history)
    calls,                  \* the times stamped for the vision-model calls (history)
    started,                \* number of invocations so far
    pin,                    \* input of the pure function under check
    pout,                   \* its outputs
    ppc,                    \* position of the pure-function run ("off": none)
    OPENAI_API_KEY,         \* bot: os.getenv('OPENAI_API_KEY') is set
    Image,                  \* bot: PIL imported
    imagehash,              \* bot: imagehash imported
    pytesseract,            \* bot: pytesseract imported
    hpc,                    \* per handler thread: position in handle_photo
    hbytes,                 \* per handler thread: file_bytes
    hrec,                   \* per handler thread: the fingerprints recorded
    hup,                    \* per handler thread: the fingerprints uploaded
    hcount,                 \* per handler thread: fingerprint computations (history)
    reaction,               \* per handler thread: the reaction on its message
    recorded,               \* backend: the content hashes recorded
    uploaded,               \* backend: the handlers whose upload arrived
    hdup,                   \* per handler thread: is_duplicate_and_record (history)
    last_update_id,         \* bot: module global, the polling offset: <<>> for None, or <<id>>
    server,                 \* Telegram: the updates not yet confirmed
    batch,                  \* main: the updates of the poll still to process
    current,                \* main: the update process_update is working on: <<>> or <<id>>
    dispatched              \* the ids of the updates given to a handler (history)

vars == <<client, PDF_SUPPORT, PDF_TEXT_SUPPORT, clock, last_openai_call_time,
          fs, pc, file_path, ext, temp_file, wake, stamp, v, err, ret, obs,
          calls, started, pin, pout, ppc, OPENAI_API_KEY, Image, imagehash,
          pytesseract, hpc, hbytes, hrec, hup, hcount, reaction, recorded,
          uploaded, hdup, last_update_id, server, batch, current, dispatched>>

\* the variables of the Telegram bot
tg == <<OPENAI_API_KEY, Image, imagehash, pytesseract, hpc, hbytes, hrec, hup,
        hcount, reaction, recorded, uploaded, hdup,
        last_update_id, server, batch, current, dispatched>>

\* the handler threads process_update starts
Handlers == {"h1", "h2"}

\* no hash (None)
NoHash == [alg |-> "none", of |-> <<>>]

\* no reply of the vision model was asked for
NoReply == [status |-> "none", text |-> <<>>]

\* the handler threads before any message
InitHandlers ==
    /\ hpc = [h \in Handlers |-> "idle"]
    /\ hbytes = [h \in Handlers |-> <<>>]
    /\ hrec = [h \in Handlers |->
                [sha |-> NoHash, ocr |-> NoHash, phash |-> NoHash, reply |-> NoReply]]
    /\ hup = [h \in Handlers |->
               [sha |-> NoHash, ocr |-> NoHash, phash |-> NoHash, reply |-> NoReply]]
    /\ hcount = [h \in Handlers |-> [sha |-> 0, ocr |-> 0, phash |-> 0]]
    /\ reaction = [h \in Handlers |-> "none"]
    /\ uploaded = {}
    /\ hdup = [h \in Handlers |->
                [answer |-> "none", said |-> FALSE, ret |-> "none", posted |-> FALSE]]
    /\ last_update_id = <<>>
    /\ server = {}
    /\ batch = <<>>
    /\ current = <<>>
    /\ dispatched = <<>>

\* the variables of the pure-function runs
pure == <<pin, pout, ppc>>

\* the variables of the extraction invocations
sys == <<clock, last_openai_call_time, fs, pc, file_path, ext, temp_file,
         wake, stamp, v, err, ret, obs, calls, started>>

env == <<client, PDF_SUPPORT, PDF_TEXT_SUPPORT>>

NoObs ==
    [arg |-> <<>>, text |-> "none", doc |-> TextLayer(FALSE, -1, <<>>, KeysNone), pdf_data |-> NoneResult,
     slept |-> FALSE,
     raster |-> FALSE, wrote |-> FALSE, ncalls |-> 0, vend |-> "none",
     resp |-> Response("none", PyNone, PyNone, KeysNone), raised |-> FALSE]

InitExtractor ==
    /\ client \in BOOLEAN
    /\ PDF_SUPPORT \in BOOLEAN
    /\ PDF_TEXT_SUPPORT \in BOOLEAN
    \* time.time() is seconds since the epoch: far more than the interval
    /\ clock = MIN_CALL_INTERVAL
    /\ last_openai_call_time = 0
    /\ fs = [p \in InputPaths \cup {ReplacePdf(q) : q \in InputPaths} |-> InitialContent(p)]
    /\ pc = [t \in Threads |-> "idle"]
    /\ file_path = [t \in Threads |-> <<>>]
    /\ ext = [t \in Threads |-> ""]
    /\ temp_file = [t \in Threads |-> <<Unbound>>]
    /\ wake = [t \in Threads |-> 0]
    /\ stamp = [t \in Threads |-> 0]
    /\ v = [t \in Threads |-> PyNone]
    /\ err = [t \in Threads |-> ""]
    /\ ret = [t \in Threads |-> NoneResult]
    /\ obs = [t \in Threads |-> NoObs]
    /\ calls = <<>>
    /\ started = 0

\* the extraction module alone: the bot is not running
InitSys ==
    /\ InitExtractor
    /\ InitHandlers
    /\ recorded = {}
    /\ OPENAI_API_KEY = FALSE
    /\ Image = FALSE
    /\ imagehash = FALSE
    /\ pytesseract = FALSE

Init ==
    /\ InitSys
    /\ pin = <<>>
    /\ pout = <<>>
    /\ ppc = "off"

\* `return x`
Return(t, x) ==
    /\ ret' = [ret EXCEPT ![t] = x]
    /\ pc' = [pc EXCEPT ![t] = "done"]

\* an exception caught by `except Exception as e` at line 260
Raise(t, msg) ==
    /\ err' = [err EXCEPT ![t] = msg]
    /\ pc' = [pc EXCEPT ![t] = "handler"]

(***************************************************************************)
(* pdf_extractor.extract_from_pdf_text                                     *)
(***************************************************************************)
extract_from_pdf_text(content, doc) ==
    IF ~PDF_TEXT_SUPPORT THEN NoneResult
    ELSE IF content # "pdf" \/ ~doc.readable THEN NoneResult
    ELSE IF doc.len = 0 \/ doc.len < MIN_TEXT_LEN THEN NoneResult
    ELSE LET value == FirstParsable(doc.matches)
         IN IF Truthy(value) /\ value.m > 0
            THEN [kind |-> "dict", value |-> value,
                  sender_pix_key |-> doc.keys.sender_pix_key,
                  receiver_pix_key |-> doc.keys.receiver_pix_key,
                  beneficiary |-> doc.keys.beneficiary,
                  endtoend |-> doc.keys.endtoend,
                  date |-> doc.keys.date,
                  method |-> "pdf_text", confidence |-> CONF_PDF_TEXT,
                  success |-> TRUE, error |-> None]
            ELSE NoneResult

\* the text layer pdfplumber gets from a file with the given content: only
\* a PDF can be opened
SeenLayer(content, doc) == [doc EXCEPT !.readable = doc.readable /\ content = "pdf"]

\* pdf_extractor.should_use_pdf_extractor
should_use_pdf_extractor(p) == Lower(Suffix(p)) = ".pdf" /\ PDF_TEXT_SUPPORT

(***************************************************************************)
(* extractors.extract_proof_data, step by step                             *)
(***************************************************************************)
\* Call with the capability flag left out of the condition at line 91
CallIgnoresCapability(t, p) ==
    /\ pc[t] = "idle"
    /\ started < MaxInvocations
    /\ started' = started + 1
    /\ obs' = [obs EXCEPT ![t] = [NoObs EXCEPT !.arg = p]]
    /\ file_path' = [file_path EXCEPT ![t] = p]
    /\ IF ~client
       THEN /\ Return(t, ErrorRecord("OpenAI not configured"))
            /\ UNCHANGED ext
       ELSE /\ ext' = [ext EXCEPT ![t] = Lower(Suffix(p))]
            /\ pc' = [pc EXCEPT ![t] =
                        IF Lower(Suffix(p)) = ".pdf" THEN "text" ELSE "rate"]
            /\ UNCHANGED ret
    /\ UNCHANGED <<env, tg, pure, clock, last_openai_call_time, fs, temp_file, wake, v,
                   err, calls, stamp>>

\* Call with the client check made only when the text-layer attempt is not
\* taken
CallChecksClientLate(t, p) ==
    /\ pc[t] = "idle"
    /\ started < MaxInvocations
    /\ started' = started + 1
    /\ obs' = [obs EXCEPT ![t] = [NoObs EXCEPT !.arg = p]]
    /\ file_path' = [file_path EXCEPT ![t] = p]
    /\ IF Lower(Suffix(p)) = ".pdf" /\ PDF_TEXT_SUPPORT
       THEN /\ ext' = [ext EXCEPT ![t] = Lower(Suffix(p))]
            /\ pc' = [pc EXCEPT ![t] = "text"]
            /\ UNCHANGED ret
       ELSE IF ~client
       THEN /\ Return(t, ErrorRecord("OpenAI not configured"))
            /\ UNCHANGED ext
       ELSE /\ ext' = [ext EXCEPT ![t] = Lower(Suffix(p))]
            /\ pc' = [pc EXCEPT ![t] = "rate"]
            /\ UNCHANGED ret
    /\ UNCHANGED <<env, tg, pure, clock, last_openai_call_time, fs, temp_file, wake, v,
                   err, calls, stamp>>

\* lines 83-91: entry, client check, extension
Call(t, p) ==
    /\ pc[t] = "idle"
    /\ started < MaxInvocations
    /\ started' = started + 1
    /\ obs' = [obs EXCEPT ![t] = [NoObs EXCEPT !.arg = p]]
    /\ file_path' = [file_path EXCEPT ![t] = p]
    /\ IF ~client
       THEN /\ Return(t, ErrorRecord("OpenAI not configured"))
            /\ UNCHANGED ext
       ELSE /\ ext' = [ext EXCEPT ![t] = Lower(Suffix(p))]
            /\ pc' = [pc EXCEPT ![t] =
                        IF Lower(Suffix(p)) = ".pdf" /\ PDF_TEXT_SUPPORT
                        THEN "text" ELSE "rate"]
            /\ UNCHANGED ret
    /\ UNCHANGED <<env, tg, pure, clock, last_openai_call_time, fs, temp_file, wake, v,
                   err, calls, stamp>>

\* TextAttempt with the early return forgotten: a successful text result
\* is logged but control falls through to the vision path
TextAttemptFallsThrough(t, doc) ==
    /\ pc[t] = "text"
    /\ LET pdf_data == extract_from_pdf_text(fs[file_path[t]], doc)
       IN /\ pc' = [pc EXCEPT ![t] = "rate"]
          /\ obs' = [obs EXCEPT ![t].text =
                       IF pdf_data.kind # "none" /\ pdf_data.success
                       THEN "success" ELSE "insufficient",
                                ![t].doc = SeenLayer(fs[file_path[t]], doc),
                                ![t].pdf_data = pdf_data]
    /\ UNCHANGED <<env, tg, pure, clock, last_openai_call_time, fs, file_path, ext,
                   temp_file, wake, v, err, ret, calls, started, stamp>>

\* TextAttempt returning whatever the text-layer extractor returned, the
\* None of the insufficient-data outcome included
TextAttemptReturnsNone(t, doc) ==
    /\ pc[t] = "text"
    /\ LET pdf_data == extract_from_pdf_text(fs[file_path[t]], doc)
       IN /\ Return(t, pdf_data)
          /\ obs' = [obs EXCEPT ![t].text =
                       IF pdf_data.kind # "none" /\ pdf_data.success
                       THEN "success" ELSE "insufficient",
                                ![t].doc = SeenLayer(fs[file_path[t]], doc),
                                ![t].pdf_data = pdf_data]
    /\ UNCHANGED <<env, tg, pure, clock, last_openai_call_time, fs, file_path, ext,
                   temp_file, wake, v, err, calls, started, stamp>>

\* lines 92-99: the text-layer attempt
TextAttempt(t, doc) ==
    /\ pc[t] = "text"
    /\ LET pdf_data == extract_from_pdf_text(fs[file_path[t]], doc)
       IN IF pdf_data.kind # "none" /\ pdf_data.success
          THEN /\ Return(t, pdf_data)
               /\ obs' = [obs EXCEPT ![t].text = "success",
                                     ![t].doc = SeenLayer(fs[file_path[t]], doc),
                                     ![t].pdf_data = pdf_data]
          ELSE /\ pc' = [pc EXCEPT ![t] = "rate"]
               /\ obs' = [obs EXCEPT ![t].text = "insufficient",
                                     ![t].doc = SeenLayer(fs[file_path[t]], doc)]
               /\ UNCHANGED ret
    /\ UNCHANGED <<env, tg, pure, clock, last_openai_call_time, fs, file_path, ext,
                   temp_file, wake, v, err, calls, started, stamp>>

\* RateLimit with the comparison reversed: it never sleeps when it should
RateLimitReversed(t) ==
    /\ pc[t] = "rate"
    /\ LET current_time == clock
           time_since_last_call == current_time - last_openai_call_time
       IN IF time_since_last_call > MIN_CALL_INTERVAL
          THEN /\ wake' = [wake EXCEPT ![t] = clock]
               /\ pc' = [pc EXCEPT ![t] = "sleep"]
               /\ obs' = [obs EXCEPT ![t].slept = TRUE]
          ELSE /\ pc' = [pc EXCEPT ![t] = "try"]
               /\ UNCHANGED <<wake, obs>>
    /\ UNCHANGED <<env, tg, pure, clock, last_openai_call_time, fs, file_path, ext,
                   temp_file, v, err, ret, calls, started, stamp>>

\* lines 101-106: read the clock and the timestamp, decide to sleep
RateLimit(t) ==
    /\ pc[t] = "rate"
    /\ LET current_time == clock
           time_since_last_call == current_time - last_openai_call_time
       IN IF time_since_last_call < MIN_CALL_INTERVAL
          THEN /\ wake' = [wake EXCEPT ![t] =
                             clock + (MIN_CALL_INTERVAL - time_since_last_call)]
               /\ pc' = [pc EXCEPT ![t] = "sleep"]
               /\ obs' = [obs EXCEPT ![t].slept = TRUE]
          ELSE /\ pc' = [pc EXCEPT ![t] = "try"]
               /\ UNCHANGED <<wake, obs>>
    /\ UNCHANGED <<env, tg, pure, clock, last_openai_call_time, fs, file_path, ext,
                   temp_file, v, err, ret, calls, started, stamp>>

\* line 107: time.sleep(sleep_time) returns once sleep_time has elapsed
Wake(t) ==
    /\ pc[t] = "sleep"
    /\ clock >= wake[t]
    /\ pc' = [pc EXCEPT ![t] = "try"]
    /\ UNCHANGED <<env, tg, pure, clock, last_openai_call_time, fs, file_path, ext,
                   temp_file, wake, v, err, ret, obs, calls, started, stamp>>

\* TryEnter with `temp_file = None` left out (temp_file is then bound only
\* by the assignment after pdf_to_image)
TryEnterLateTemp(t) ==
    /\ pc[t] = "try"
    /\ IF ext[t] \notin {".jpg", ".jpeg", ".png", ".pdf"}
       THEN Return(t, ErrorRecord("Unsupported file"))
       ELSE IF ext[t] = ".pdf"
            THEN IF ~PDF_SUPPORT
                 THEN Return(t, ErrorRecord("PDF not supported"))
                 ELSE pc' = [pc EXCEPT ![t] = "convert"] /\ UNCHANGED ret
            ELSE pc' = [pc EXCEPT ![t] = "encode"] /\ UNCHANGED ret
    /\ UNCHANGED <<env, tg, pure, clock, last_openai_call_time, fs, file_path, ext,
                   temp_file, wake, v, err, obs, calls, started, stamp>>

\* lines 109-121: extension check, temp_file = None, rasterizer check
TryEnter(t) ==
    /\ pc[t] = "try"
    /\ IF ext[t] \notin {".jpg", ".jpeg", ".png", ".pdf"}
       THEN /\ Return(t, ErrorRecord("Unsupported file"))
            /\ UNCHANGED temp_file
       ELSE /\ temp_file' = [temp_file EXCEPT ![t] = <<None>>]
            /\ IF ext[t] = ".pdf"
               THEN IF ~PDF_SUPPORT
                    THEN Return(t, ErrorRecord("PDF not supported"))
                    ELSE pc' = [pc EXCEPT ![t] = "convert"] /\ UNCHANGED ret
               ELSE pc' = [pc EXCEPT ![t] = "encode"] /\ UNCHANGED ret
    /\ UNCHANGED <<env, tg, pure, clock, last_openai_call_time, fs, file_path, ext,
                   wake, v, err, obs, calls, started, stamp>>

\* pdf_to_image lines 62-70: convert_from_path on the input file
\* outcome: "images", "empty" (no page) or "raise" (the rasterizer fails)
Convert(t, outcome) ==
    /\ pc[t] = "convert"
    /\ outcome \in {"images", "empty", "raise"}
    /\ obs' = [obs EXCEPT ![t].raster = TRUE]
    /\ IF ~PDF_SUPPORT
       THEN Raise(t, "pdf2image not installed")
       ELSE IF fs[file_path[t]] # "pdf" \/ outcome = "raise"
       THEN Raise(t, "convert_from_path failed")
       ELSE IF outcome = "empty"
       THEN Raise(t, "could not convert PDF")
       ELSE pc' = [pc EXCEPT ![t] = "save"] /\ UNCHANGED err
    /\ UNCHANGED <<env, tg, pure, clock, last_openai_call_time, fs, file_path, ext,
                   temp_file, wake, v, ret, calls, started, stamp>>

\* pdf_to_image lines 72-81 and extract_proof_data lines 119-121:
\* images[0].save(temp_path), then file_path = temp_file = temp_path.
\* outcome: "ok", "fail_partial" (save raises after the file was opened for
\* writing) or "fail_clean" (save raises and leaves nothing new behind)
Save(t, outcome) ==
    /\ pc[t] = "save"
    /\ outcome \in {"ok", "fail_partial", "fail_clean"}
    /\ LET temp_path == ReplacePdf(file_path[t])
       IN CASE outcome = "ok" ->
                 /\ fs' = [fs EXCEPT ![temp_path] = "jpeg"]
                 /\ file_path' = [file_path EXCEPT ![t] = temp_path]
                 /\ temp_file' = [temp_file EXCEPT ![t] = temp_path]
                 /\ ext' = [ext EXCEPT ![t] = ".jpg"]
                 /\ pc' = [pc EXCEPT ![t] = "encode"]
                 /\ obs' = [obs EXCEPT ![t].wrote = TRUE]
                 /\ UNCHANGED err
            [] outcome = "fail_partial" ->
                 /\ fs' = [fs EXCEPT ![temp_path] = "partial"]
                 /\ obs' = [obs EXCEPT ![t].wrote = TRUE]
                 /\ Raise(t, "save failed")
                 /\ UNCHANGED <<file_path, temp_file, ext>>
            [] outcome = "fail_clean" ->
                 /\ Raise(t, "save failed")
                 /\ UNCHANGED <<fs, file_path, temp_file, ext, obs>>
    /\ UNCHANGED <<env, tg, pure, clock, last_openai_call_time, wake, v, ret, calls,
                   started, stamp>>

\* line 123 (encode_image, lines 56-58): read the image file
EncodeImage(t) ==
    /\ pc[t] = "encode"
    /\ IF fs[file_path[t]] = "absent"
       THEN Raise(t, "No such file")
       ELSE pc' = [pc EXCEPT ![t] = "call"] /\ UNCHANGED err
    /\ UNCHANGED <<env, tg, pure, clock, last_openai_call_time, fs, file_path, ext,
                   temp_file, wake, v, ret, obs, calls, started, stamp>>

\* line 193, right-hand side: time.time() is evaluated; the thread can be
\* preempted before the result is stored
StampTime(t) ==
    /\ pc[t] = "call"
    /\ stamp' = [stamp EXCEPT ![t] = clock]
    /\ pc' = [pc EXCEPT ![t] = "stamp"]
    /\ UNCHANGED <<env, tg, pure, clock, last_openai_call_time, fs, file_path, ext,
                   temp_file, wake, v, err, ret, obs, calls, started>>

\* lines 193-195: the value is stored in the global and the vision-model
\* call is issued; the call starts at the time stamped for it
CallModel(t) ==
    /\ pc[t] = "stamp"
    /\ last_openai_call_time' = stamp[t]
    /\ calls' = Append(calls, stamp[t])
    /\ obs' = [obs EXCEPT ![t].ncalls = @ + 1]
    /\ pc' = [pc EXCEPT ![t] = "await"]
    /\ UNCHANGED <<env, tg, pure, clock, fs, file_path, ext, temp_file, wake, v, err,
                   ret, started, stamp>>

\* lines 210-239: v = r.get('valor') or r.get('value'), then normalization
VisionValue(r) ==
    LET v0 == IF Truthy(r.valor) THEN r.valor ELSE r.value
    IN IF v0.t = "str" THEN NormalizeVisionValue(v0.s)
       ELSE IF v0.t = "none" THEN PyNum(0, 0)
       ELSE v0

\* lines 195-239: the call returns or raises; parse the response
ModelReturn(t, r) ==
    /\ pc[t] = "await"
    /\ IF r.kind = "upstream_error"
       THEN /\ Raise(t, "upstream error")
            /\ obs' = [obs EXCEPT ![t].vend = "upstream_error", ![t].resp = r]
            /\ UNCHANGED v
       ELSE IF r.kind = "malformed"
       THEN /\ Raise(t, "malformed JSON")
            /\ obs' = [obs EXCEPT ![t].vend = "malformed", ![t].resp = r]
            /\ UNCHANGED v
       ELSE IF VisionValue(r) = ParseError
       THEN /\ Raise(t, "could not convert string to float")
            /\ obs' = [obs EXCEPT ![t].vend = "parse_error", ![t].resp = r]
            /\ UNCHANGED v
       ELSE /\ v' = [v EXCEPT ![t] = VisionValue(r)]
            /\ pc' = [pc EXCEPT ![t] = "cleanup"]
            /\ obs' = [obs EXCEPT ![t].vend = "parsed", ![t].resp = r]
            /\ UNCHANGED err
    /\ UNCHANGED <<env, tg, pure, clock, last_openai_call_time, fs, file_path, ext,
                   temp_file, wake, ret, calls, started, stamp>>

\* `if temp_file and os.path.exists(temp_file): try: os.remove(...) except: pass`
\* removed: os.remove succeeds
RemoveTemp(t, removed) ==
    IF /\ temp_file[t] \notin {<<None>>, <<Unbound>>}
       /\ fs[temp_file[t]] # "absent"
       /\ removed
    THEN fs' = [fs EXCEPT ![temp_file[t]] = "absent"]
    ELSE UNCHANGED fs

\* VisionRecord with 'success': bool(v)
VisionRecordTruthy(r, val) ==
    [kind |-> "dict", value |-> val,
     sender_pix_key |-> r.keys.sender_pix_key,
     receiver_pix_key |-> r.keys.receiver_pix_key,
     beneficiary |-> r.keys.beneficiary,
     endtoend |-> r.keys.endtoend,
     date |-> r.keys.date,
     method |-> NoKey,
     confidence |-> IF Truthy(val) THEN CONF_VISION_HIGH ELSE CONF_VISION_LOW,
     success |-> Truthy(val),
     error |-> None]

\* lines 249-259: the record built from r and v
VisionRecord(r, val) ==
    [kind |-> "dict", value |-> val,
     sender_pix_key |-> r.keys.sender_pix_key,
     receiver_pix_key |-> r.keys.receiver_pix_key,
     beneficiary |-> r.keys.beneficiary,
     endtoend |-> r.keys.endtoend,
     date |-> r.keys.date,
     method |-> NoKey,
     confidence |-> IF Truthy(val) THEN CONF_VISION_HIGH ELSE CONF_VISION_LOW,
     success |-> Truthy(val) /\ val.m > 0,
     error |-> None]

\* Cleanup without the try/except around os.remove: a failed deletion
\* raises into the handler
CleanupRemoveRaises(t, removed) ==
    /\ pc[t] = "cleanup"
    /\ removed \in BOOLEAN
    /\ RemoveTemp(t, removed)
    /\ IF \/ v[t].t = "obj"
          \/ (temp_file[t] \notin {<<None>>, <<Unbound>>} /\ fs'[temp_file[t]] # "absent")
       THEN /\ Raise(t, "'>' not supported")
            /\ obs' = [obs EXCEPT ![t].vend = "type_error"]
            /\ UNCHANGED ret
       ELSE /\ Return(t, VisionRecord(obs[t].resp, v[t]))
            /\ obs' = [obs EXCEPT ![t].vend = "returned"]
            /\ UNCHANGED err
    /\ UNCHANGED <<env, tg, pure, clock, last_openai_call_time, file_path, ext,
                   temp_file, wake, v, calls, started, stamp>>

\* lines 241-259: delete the temporary file, build and return the record
\* (`v > 0` raises TypeError when v is neither a number nor a string)
Cleanup(t, removed) ==
    /\ pc[t] = "cleanup"
    /\ removed \in BOOLEAN
    /\ RemoveTemp(t, removed)
    /\ IF v[t].t = "obj"
       THEN /\ Raise(t, "'>' not supported")
            /\ obs' = [obs EXCEPT ![t].vend = "type_error"]
            /\ UNCHANGED ret
       ELSE /\ Return(t, VisionRecord(obs[t].resp, v[t]))
            /\ obs' = [obs EXCEPT ![t].vend = "returned"]
            /\ UNCHANGED err
    /\ UNCHANGED <<env, tg, pure, clock, last_openai_call_time, file_path, ext,
                   temp_file, wake, v, calls, started, stamp>>

\* Handler that issues the vision-model call again after an upstream error
HandlerRetries(t, removed) ==
    /\ pc[t] = "handler"
    /\ removed \in BOOLEAN
    /\ IF temp_file[t] = <<Unbound>>
       THEN /\ pc' = [pc EXCEPT ![t] = "done"]
            /\ obs' = [obs EXCEPT ![t].raised = TRUE]
            /\ UNCHANGED <<fs, ret>>
       ELSE IF obs[t].vend = "upstream_error" /\ obs[t].ncalls < 2
       THEN /\ pc' = [pc EXCEPT ![t] = "call"]
            /\ UNCHANGED <<fs, ret, obs>>
       ELSE /\ RemoveTemp(t, removed)
            /\ Return(t, ErrorRecord(err[t]))
            /\ UNCHANGED obs
    /\ UNCHANGED <<env, tg, pure, clock, last_openai_call_time, file_path, ext,
                   temp_file, wake, v, err, calls, started, stamp>>

\* lines 260-270: the exception handler
Handler(t, removed) ==
    /\ pc[t] = "handler"
    /\ removed \in BOOLEAN
    /\ IF temp_file[t] = <<Unbound>>
       THEN \* NameError escapes to the caller
            /\ pc' = [pc EXCEPT ![t] = "done"]
            /\ obs' = [obs EXCEPT ![t].raised = TRUE]
            /\ UNCHANGED <<fs, ret>>
       ELSE /\ RemoveTemp(t, removed)
            /\ Return(t, ErrorRecord(err[t]))
            /\ UNCHANGED obs
    /\ UNCHANGED <<env, tg, pure, clock, last_openai_call_time, file_path, ext,
                   temp_file, wake, v, err, calls, started, stamp>>

\* the caller takes the result; the locals of the invocation die
Reset(t) ==
    /\ pc[t] = "done"
    /\ pc' = [pc EXCEPT ![t] = "idle"]
    /\ file_path' = [file_path EXCEPT ![t] = <<>>]
    /\ ext' = [ext EXCEPT ![t] = ""]
    /\ temp_file' = [temp_file EXCEPT ![t] = <<Unbound>>]
    /\ wake' = [wake EXCEPT ![t] = 0]
    /\ v' = [v EXCEPT ![t] = PyNone]
    /\ err' = [err EXCEPT ![t] = ""]
    /\ ret' = [ret EXCEPT ![t] = NoneResult]
    /\ stamp' = [stamp EXCEPT ![t] = 0]
    /\ obs' = [obs EXCEPT ![t] = NoObs]
    /\ UNCHANGED <<env, tg, pure, clock, last_openai_call_time, fs, calls, started>>

\* one second passes
Tick ==
    /\ clock < MaxTime
    /\ clock' = clock + 1
    /\ UNCHANGED <<env, tg, pure, last_openai_call_time, fs, pc, file_path, ext,
                   temp_file, wake, v, err, ret, obs, calls, started, stamp>>

Main == "t1"

\* the steps of thread t after the call, with inputs drawn from the sets
Step(t, docs, resps) ==
    \/ \E doc \in docs : TextAttempt(t, doc)
    \/ RateLimit(t)
    \/ Wake(t)
    \/ TryEnter(t)
    \/ \E o \in {"images", "empty", "raise"} : Convert(t, o)
    \/ \E o \in {"ok", "fail_partial", "fail_clean"} : Save(t, o)
    \/ EncodeImage(t)
    \/ StampTime(t)
    \/ CallModel(t)
    \/ \E r \in resps : ModelReturn(t, r)
    \/ \E removed \in BOOLEAN : Cleanup(t, removed)
    \/ \E removed \in BOOLEAN : Handler(t, removed)
    \/ Reset(t)

\* invocations one after another by a single caller
Next ==
    \/ \E p \in InputPaths : Call(Main, p)
    \/ Step(Main, MainInputs.layers, MainInputs.responses)
    \/ Tick

Spec == Init /\ [][Next]_vars

\* invocations in concurrent threads
NextConc ==
    \/ \E t \in Threads : \E p \in ConcInputs.paths : Call(t, p)
    \/ \E t \in Threads : Step(t, ConcInputs.layers, ConcInputs.responses)
    \/ Tick

SpecConc == Init /\ [][NextConc]_vars

(***************************************************************************)
(* The currency normalizer as a pure function                              *)
(***************************************************************************)
MaxAmountLen == 6

AmountChars == Digits \cup {".", ","}

AmountExamples ==
    [ e49500 |-> <<"R", "$", " ", "4", "9", ".", "5", "0", "0", ",", "0", "0">>,
      e4950 |-> <<"R", "$", " ", "4", "9", ",", "5", "0">>,
      e500000 |-> <<"R", "$", " ", "5", "0", "0", ".", "0", "0", "0", ",", "0", "0">>,
      e4985 |-> <<"4", "9", ".", "8", "5">>,
      e49850 |-> <<"4", "9", ".", "8", "5", "0">>,
      Plain |-> <<"4", "9", "8", "5", "0", ".", "0", "0">>,
      OneDigit |-> <<"1", ".", "2", "3", "4", ",", "5">>,
      TwoDigits |-> <<"1", ".", "2", "3", "4", ",", "5", "6">> ]

\* group(1) of r'Valor[:\s]*R?\$?\s*([\d.,]+)' on "Valor: " followed by
\* str: the longest run of digits, '.' and ',' after the optional currency
\* symbol and blanks (empty: the pattern does not match)
RECURSIVE TakeAmountChars(_)
TakeAmountChars(str) ==
    IF str # <<>> /\ Head(str) \in AmountChars
    THEN <<Head(str)>> \o TakeAmountChars(Tail(str))
    ELSE <<>>

PdfCapture(str) ==
    LET s1 == IF str # <<>> /\ Head(str) = "R" THEN Tail(str) ELSE str
        s2 == IF s1 # <<>> /\ Head(s1) = "$" THEN Tail(s1) ELSE s1
    IN TakeAmountChars(LStrip(s2))

Pow10(n) == IF n = 0 THEN 1 ELSE IF n = 1 THEN 10 ELSE IF n = 2 THEN 100
            ELSE IF n = 3 THEN 1000 ELSE 10 ^ n

DigitChar(d) == CHOOSE c \in Digits : DigitVal(c) = d

RECURSIVE IntToDigits(_)
IntToDigits(n) ==
    IF n < 10 THEN <<DigitChar(n)>>
    ELSE IntToDigits(n \div 10) \o <<DigitChar(n % 10)>>

RECURSIVE PadLeft(_, _)
PadLeft(ds, n) == IF Len(ds) >= n THEN ds ELSE PadLeft(<<"0">> \o ds, n)

\* a number without trailing fractional zeros
RECURSIVE Canon(_)
Canon(x) ==
    IF x.e > 0 /\ x.m % 10 = 0 THEN Canon(PyNum(x.m \div 10, x.e - 1)) ELSE x

\* number of fractional digits of a value
FracDigits(x) == Canon(x).e

\* the plain decimal string of a number: sign, integer digits, '.',
\* fractional digits (at least one), no exponent
Plain(x) ==
    LET c == Canon(x)
        a == IF c.m < 0 THEN 0 - c.m ELSE c.m
    IN (IF c.m < 0 THEN <<"-">> ELSE <<>>) \o
       IntToDigits(a \div Pow10(c.e)) \o <<".">> \o
       (IF c.e = 0 THEN <<"0">> ELSE PadLeft(IntToDigits(a % Pow10(c.e)), c.e))

InitNorm ==
    /\ InitSys
    /\ client /\ PDF_SUPPORT /\ PDF_TEXT_SUPPORT
    \* the amount strings of the run: every string over the alphabet up to the
    \* bound, bare or after "R$ ", and the examples
    /\ pin \in
        {AmountExamples[k] : k \in DOMAIN AmountExamples} \cup
        { prefix \o body :
            prefix \in {<<>>, <<"R", "$", " ">>},
            body \in UNION {[1..n -> {"0", "5", ".", ",", "-"}] : n \in 0..MaxAmountLen} }
    /\ pout = [pdf |-> PyNone, vision |-> PyNone, pdf2 |-> PyNone, vision2 |-> PyNone]
    /\ ppc = "in"

\* the pdf_text copy on the amount: data['value'] after lines 104-137
NormPdf ==
    /\ ppc = "in"
    /\ pout' = [pout EXCEPT !.pdf = IF PdfCapture(pin) = <<>> THEN PyNone
                              ELSE FirstParsable(<<PdfCapture(pin)>>)]
    /\ ppc' = "pdf"
    /\ UNCHANGED <<env, tg, sys, pin>>

\* the vision copy on the amount as the model's 'valor' string
NormVision ==
    /\ ppc = "pdf"
    /\ pout' = [pout EXCEPT !.vision =
                   VisionValue(Response("object", PyStr(pin), PyNone, KeysNone))]
    /\ ppc' = "vision"
    /\ UNCHANGED <<env, tg, sys, pin>>

\* both copies again, on the plain decimal string of their own output
Renormalize ==
    /\ ppc = "vision"
    /\ pout' = [pout EXCEPT
                   !.pdf2 = IF pout.pdf.t = "num"
                            THEN NormalizePdfValue(Plain(pout.pdf)) ELSE PyNone,
                   !.vision2 = IF pout.vision.t = "num"
                               THEN NormalizeVisionValue(Plain(pout.vision))
                               ELSE PyNone]
    /\ ppc' = "done"
    /\ UNCHANGED <<env, tg, sys, pin>>

NextNorm ==
    \/ NormPdf
    \/ NormVision
    \/ Renormalize

SpecNorm == InitNorm /\ [][NextNorm]_vars

(***************************************************************************)
(* The field recognizer for the two PIX keys as a pure function            *)
(***************************************************************************)
\* A text is a sequence of blank-separated words.  The words stand for:
\*   "Pagador", "Destinatário", "Favorecido", "Chave"  themselves
\*   "uuid"     123e4567-e89b-12d3-a456-4266141740ab
\*   "cnpj_fmt" 12.345.678/0001-90      "cnpj14"  12345678000190
\*   "cpf"      12345678909             "email"   a@b.com
\*   "phone"    +55 11 91234-5678         "x"       Banco
MaxTokens == 4

\* the directional alternation matches somewhere in the word, under
\* re.IGNORECASE: (?:pagador|origem|de|remetente) matches "Pagador" and the
\* "De" of "Destinatário"; (?:favorecido|destinat[aá]rio|...) matches
\* "Favorecido" and "Destinatário".  In these words it matches at the start.
HasLabel(side, word) ==
    IF side = "sender" THEN word \in {"Pagador", "Destinatário"}
    ELSE word \in {"Favorecido", "Destinatário"}

\* (?:chave|pix)
HasKeyLabel(word) == word = "Chave"

\* the capture groups of the patterns, in list order after the two
\* key-labelled uuid patterns
Tiers == <<"uuid", "cnpj_fmt", "cnpj14", "cpf", "email", "phone">>

NoMatch == [pos |-> 0, kind |-> "none"]

Min(S) == CHOOSE x \in S : \A y \in S : x <= y

\* re.search: the leftmost start, then the shortest '.*?'; m is the set of
\* <<start, capture position>> pairs at which the pattern matches
Leftmost(m, kind) ==
    IF m = {} THEN NoMatch
    ELSE LET start == Min({p[1] : p \in m})
         IN [pos |-> Min({p[2] : p \in {q \in m : q[1] = start}}), kind |-> kind]

\* label .*? (?:chave|pix)[:\s]* (uuid)
LabelKeyUuid(side, text) ==
    Leftmost({<<i, j>> \in (1..Len(text)) \X (1..Len(text)) :
                 /\ HasLabel(side, text[i])
                 /\ j > i + 1
                 /\ HasKeyLabel(text[j - 1])
                 /\ text[j] = "uuid"}, "uuid")

\* (?:chave|pix)[:\s]* label .*? (uuid)
KeyLabelUuid(side, text) ==
    Leftmost({<<k, j>> \in (1..Len(text)) \X (1..Len(text)) :
                 /\ HasKeyLabel(text[k])
                 /\ k + 1 <= Len(text)
                 /\ HasLabel(side, text[k + 1])
                 /\ j > k + 1
                 /\ text[j] = "uuid"}, "uuid")

\* label .*? (capture of the tier)
LabelThen(side, text, kind) ==
    Leftmost({<<i, j>> \in (1..Len(text)) \X (1..Len(text)) :
                 /\ HasLabel(side, text[i])
                 /\ j > i
                 \* the capture group of a tier matches at the start of the word;
                 \* (\d{11}) also matches the first eleven digits of a 14-digit word
                 /\ IF kind = "cpf" THEN text[j] \in {"cpf", "cnpj14"}
                    ELSE text[j] = kind}, kind)

\* the loop over PATTERNS[field]: the first pattern that matches wins
RECURSIVE FirstTier(_, _, _)
FirstTier(side, text, n) ==
    IF n > Len(Tiers) THEN NoMatch
    ELSE IF LabelThen(side, text, Tiers[n]) # NoMatch
         THEN LabelThen(side, text, Tiers[n])
         ELSE FirstTier(side, text, n + 1)

Recognize(side, text) ==
    IF LabelKeyUuid(side, text) # NoMatch THEN LabelKeyUuid(side, text)
    ELSE IF KeyLabelUuid(side, text) # NoMatch THEN KeyLabelUuid(side, text)
    ELSE FirstTier(side, text, 1)

InitRecog ==
    /\ InitSys
    /\ client /\ PDF_SUPPORT /\ PDF_TEXT_SUPPORT
    /\ pin \in
        LET Words == {"Pagador", "Destinatário", "Favorecido", "Chave", "uuid",
                      "cnpj_fmt", "cnpj14", "cpf", "email", "phone", "x"}
        IN UNION {[1..n -> Words] : n \in 0..MaxTokens}
    /\ pout = [sender |-> NoMatch, receiver |-> NoMatch]
    /\ ppc = "text"

RecognizeSender ==
    /\ ppc = "text"
    /\ pout' = [pout EXCEPT !.sender = Recognize("sender", pin)]
    /\ ppc' = "sender"
    /\ UNCHANGED <<env, tg, sys, pin>>

RecognizeReceiver ==
    /\ ppc = "sender"
    /\ pout' = [pout EXCEPT !.receiver = Recognize("receiver", pin)]
    /\ ppc' = "keys"
    /\ UNCHANGED <<env, tg, sys, pin>>

NextRecog ==
    \/ RecognizeSender
    \/ RecognizeReceiver

SpecRecog == InitRecog /\ [][NextRecog]_vars

(***************************************************************************)
(* Properties                                                              *)
(***************************************************************************)
SupportedExts == {".jpg", ".jpeg", ".png", ".pdf"}

ArgExt(t) == Lower(Suffix(obs[t].arg))

Returned(t) == pc[t] = "done" /\ ~obs[t].raised

IsMessage(e) == e \notin {None, NoKey}

Positive(val) == val.t = "num" /\ val.m > 0

\* C1: a successful text-layer result of a PDF is returned as the outcome,
\* and the invocation makes no vision-model call, no rate-limit wait, no
\* rasterization and creates no temporary file.
C1_TextSuccessShortCircuits ==
    \A t \in Threads :
        obs[t].text = "success" =>
            /\ pc[t] = "done"
            /\ ArgExt(t) = ".pdf"
            /\ ret[t] = obs[t].pdf_data
            /\ ret[t].success /\ Positive(ret[t].value)
            /\ obs[t].ncalls = 0
            /\ ~obs[t].slept
            /\ ~obs[t].raster
            /\ ~obs[t].wrote
            /\ obs[t].vend = "none"

\* a text-layer success that arrives less than the interval after a vision
\* call (a vision attempt would have had to wait)
C1_Witness ==
    /\ pc[Main] = "done"
    /\ obs[Main].text = "success"
    /\ Len(calls) > 0
    /\ clock - last_openai_call_time < MIN_CALL_INTERVAL

\* C2: with invocations one after another, the start times of consecutive
\* vision-model calls differ by at least MIN_CALL_INTERVAL.
C2_SequentialSpacing ==
    \A i \in 1..(Len(calls) - 1) : calls[i + 1] - calls[i] >= MIN_CALL_INTERVAL

\* a second call issued by an invocation that had to sleep
C2_Witness ==
    /\ Len(calls) = 2
    /\ obs[Main].slept
    /\ obs[Main].ncalls = 1

\* C3: under every interleaving of concurrent invocations no two
\* vision-model calls start less than MIN_CALL_INTERVAL apart.
C3_ConcurrentSpacing ==
    \A i, j \in 1..Len(calls) :
        i < j => calls[j] - calls[i] >= MIN_CALL_INTERVAL

\* C4: after an invocation completes, no temporary raster file it created
\* remains on the filesystem.
C4_NoTempFileRemains ==
    \A t \in Threads :
        (pc[t] = "done" /\ obs[t].wrote) =>
            fs[ReplacePdf(obs[t].arg)] \notin {"jpeg", "partial"}

\* C5: the caller's files keep their bytes, and the temporary raster path
\* differs from the input path.
C5_InputImmutable ==
    /\ \A p \in InputPaths : fs[p] = InitialContent(p)
    /\ \A t \in Threads : pc[t] = "save" => ReplacePdf(file_path[t]) # file_path[t]

\* C6: every returned record (of extract_proof_data and of
\* extract_from_pdf_text) with success = true has a value that is present
\* and greater than zero.
C6_SuccessImpliesPositiveValue ==
    \A t \in Threads :
        /\ (Returned(t) /\ ret[t].success) => Positive(ret[t].value)
        /\ (obs[t].pdf_data.kind = "dict" /\ obs[t].pdf_data.success)
              => Positive(obs[t].pdf_data.value)

\* a successful record of the vision path, built from a string amount
C6_Witness ==
    /\ Returned(Main)
    /\ obs[Main].vend = "returned"
    /\ obs[Main].resp.valor.t = "str"
    /\ ret[Main].success

\* C7: an unsupported extension fails fast with "Unsupported file": no
\* rate-limit wait, no text-layer attempt, no model call, no file created.
C7_UnsupportedFailsFast ==
    \A t \in Threads :
        (Returned(t) /\ client /\ ArgExt(t) \notin SupportedExts) =>
            /\ ~ret[t].success
            /\ ret[t].error = "Unsupported file"
            /\ ~obs[t].slept
            /\ obs[t].text = "none"
            /\ obs[t].ncalls = 0
            /\ ~obs[t].raster /\ ~obs[t].wrote

\* C8: when the value cannot be parsed as a number, the returned record has
\* no value, success = false, and still carries the other recognized fields.
C8_ParseErrorKeepsFields ==
    \A t \in Threads :
        (Returned(t) /\ obs[t].vend = "parse_error") =>
            /\ ret[t].value = PyNone
            /\ ~ret[t].success
            /\ ret[t].sender_pix_key = obs[t].resp.keys.sender_pix_key
            /\ ret[t].receiver_pix_key = obs[t].resp.keys.receiver_pix_key
            /\ ret[t].beneficiary = obs[t].resp.keys.beneficiary
            /\ ret[t].endtoend = obs[t].resp.keys.endtoend
            /\ ret[t].date = obs[t].resp.keys.date

\* C9: a vision attempt that ends without a positive value returns
\* success = false and an error message.
C9_VisionFailureHasError ==
    \A t \in Threads :
        (Returned(t) /\ obs[t].ncalls > 0 /\ ~Positive(ret[t].value)) =>
            /\ ~ret[t].success
            /\ IsMessage(ret[t].error)

\* the failures that extract_proof_data reports as an error record
ReportedFailure(t) ==
    \/ ArgExt(t) \notin SupportedExts
    \/ ArgExt(t) = ".pdf" /\ ~PDF_SUPPORT /\ obs[t].text # "success"
    \/ obs[t].raster /\ obs[t].ncalls = 0
    \/ obs[t].vend \in {"upstream_error", "malformed"}

IsErrorRecord(x) == x.kind = "dict" /\ ~x.success /\ IsMessage(x.error)

\* C10 as stated: never raises, and unsupported file type, missing
\* rasterizer or text-layer capability, rasterization failure, upstream
\* error and malformed response all give a record with success = false and
\* an error string.
C10_Original ==
    \A t \in Threads :
        /\ ~obs[t].raised
        /\ (pc[t] = "done" /\
              (ReportedFailure(t) \/ (ArgExt(t) = ".pdf" /\ ~PDF_TEXT_SUPPORT)))
              => IsErrorRecord(ret[t])

\* C10 (amended): extract_proof_data never raises, and unsupported file
\* type, missing rasterizer, rasterization failure, upstream error and
\* malformed response all give a record with success = false and an error
\* string; a missing text-layer capability is no error (the PDF goes to the
\* vision attempt).
C10_NeverRaises ==
    \A t \in Threads :
        /\ ~obs[t].raised
        /\ (pc[t] = "done" /\ ReportedFailure(t)) => IsErrorRecord(ret[t])

\* a rasterization failure reported as an error record
C10_Witness ==
    /\ pc[Main] = "done"
    /\ obs[Main].raster
    /\ obs[Main].ncalls = 0
    /\ IsErrorRecord(ret[Main])

\* C11: every returned record carries a method tag naming the extractor
\* that produced it: pdf_text for the text layer, vision for the vision model.
C11_MethodTagRecorded ==
    \A t \in Threads :
        /\ (Returned(t) /\ obs[t].text = "success") => ret[t].method = "pdf_text"
        /\ (Returned(t) /\ obs[t].vend = "returned") => ret[t].method = "vision"

\* C12: on the vision path the confidence is 0.95 exactly when a positive
\* value was extracted and 0.5 otherwise; confidence 0.95 implies success.
C12_VisionConfidence ==
    \A t \in Threads :
        (Returned(t) /\ obs[t].vend = "returned") =>
            /\ ret[t].confidence =
                 (IF Positive(ret[t].value) THEN CONF_VISION_HIGH ELSE CONF_VISION_LOW)
            /\ ret[t].confidence = CONF_VISION_HIGH => ret[t].success

\* the text layer cannot give a positive value: unreadable, empty, shorter
\* than the threshold, or no positive amount recognized
NoPositiveValue(doc) ==
    \/ ~doc.readable
    \/ doc.len < MIN_TEXT_LEN
    \/ ~Positive(FirstParsable(doc.matches))

\* C13: for a PDF whose text layer cannot give a positive value, the
\* text-layer extractor yields the insufficient-data outcome without raising
\* and extract_proof_data goes on to the vision attempt; the outcome is
\* never returned to the caller.
C13_InsufficientFallsBack ==
    \A t \in Threads :
        /\ (obs[t].text # "none" /\ NoPositiveValue(obs[t].doc))
              => obs[t].text = "insufficient"
        /\ obs[t].text = "insufficient" =>
              /\ ~obs[t].raised
              /\ pc[t] \notin {"idle", "text"}
              /\ pc[t] = "done" => ret[t].kind = "dict"
              /\ (pc[t] = "done" /\ ArgExt(t) \in SupportedExts /\ PDF_SUPPORT)
                    => obs[t].raster

\* a PDF without text layer whose invocation reached the vision-model call
C13_Witness ==
    /\ pc[Main] = "await"
    /\ obs[Main].text = "insufficient"
    /\ obs[Main].doc.readable /\ obs[Main].doc.len = 0

\* C14: the text-layer attempt is entered only for a .pdf document with the
\* text-layer capability; every other document goes to the vision attempt
\* without a call of extract_from_pdf_text.
C14_TextAttemptOnlyForPdf ==
    \A t \in Threads :
        /\ (pc[t] = "text" \/ obs[t].text # "none") =>
              /\ ArgExt(t) = ".pdf" /\ PDF_TEXT_SUPPORT
              /\ should_use_pdf_extractor(obs[t].arg)
        /\ (client /\ pc[t] \notin {"idle", "text"}) =>
              (obs[t].text # "none" <=> (ArgExt(t) = ".pdf" /\ PDF_TEXT_SUPPORT))

\* a PDF rasterized for the vision attempt without any text-layer attempt
C14_Witness ==
    /\ pc[Main] = "save"
    /\ ArgExt(Main) = ".pdf"
    /\ ~PDF_TEXT_SUPPORT
    /\ obs[Main].text = "none"

\* the amount without currency symbol and surrounding blanks
Body(str) == Strip(RemoveRS(str))

AllDigits(str) == \A i \in 1..Len(str) : str[i] \in Digits

\* str.split(c)
RECURSIVE Split(_, _)
Split(str, c) ==
    IF ~Contains(str, c) THEN <<str>>
    ELSE LET i == CHOOSE k \in 1..Len(str) :
                    str[k] = c /\ \A j \in 1..(k - 1) : str[j] # c
         IN <<SubSeq(str, 1, i - 1)>> \o Split(SubSeq(str, i + 1, Len(str)), c)

RECURSIVE Concat(_)
Concat(segs) == IF segs = <<>> THEN <<>> ELSE Head(segs) \o Concat(Tail(segs))

\* integer digits ip and fractional digits fp read as a decimal
Decimal(ip, fp) ==
    IF AllDigits(ip) /\ AllDigits(fp) /\ Len(ip) + Len(fp) > 0
    THEN PyNum(DigitsValue(ip \o fp), Len(fp))
    ELSE ParseError

\* the normalization algorithm as specified (steps 1-4)
SpecNormalize(str) ==
    LET b == Body(str)
    IN IF Contains(b, ",")
       THEN LET parts == Split(Concat(Split(b, ".")), ",")
            IN IF Len(parts) = 2 THEN Decimal(parts[1], parts[2]) ELSE ParseError
       ELSE LET segs == Split(b, ".")
            IN IF Len(segs) = 2 /\ Len(segs[2]) \in 1..2
               THEN Decimal(segs[1], segs[2])
               ELSE Decimal(Concat(segs), <<>>)

NumEq(a, b) ==
    a.t = "num" /\ b.t = "num" /\ Canon(a) = Canon(b)

\* the same number, or both no number
SameOutcome(a, b) ==
    IF a.t = "num" /\ b.t = "num" THEN NumEq(a, b) ELSE a.t # "num" /\ b.t # "num"

\* a non-empty string over digits, '.' and ',' (after an optional 'R$')
AmountDomain(str) ==
    /\ Body(str) # <<>>
    /\ \A i \in 1..Len(Body(str)) : Body(str)[i] \in AmountChars

ExpectedAmounts ==
    { <<AmountExamples.e49500, 4950000, 2>>, <<AmountExamples.e4950, 4950, 2>>,
      <<AmountExamples.e500000, 50000000, 2>>, <<AmountExamples.e4985, 4985, 2>>,
      <<AmountExamples.e49850, 49850, 0>> }

\* C15: for every string over digits, '.' and ',' (optionally after 'R$')
\* the currency normalization of the pdf_text path gives the outcome of the
\* specified algorithm, and the five examples give the stated amounts.
C15_NormalizerMatchesAlgorithm ==
    (ppc \in {"pdf", "vision", "done"} /\ AmountDomain(pin)) =>
        /\ SameOutcome(pout.pdf, SpecNormalize(pin))
        /\ \A ex \in ExpectedAmounts :
              pin = ex[1] => NumEq(pout.pdf, PyNum(ex[2], ex[3]))

\* 'R$ 49.500,00' normalized to 49500.00
C15_Witness ==
    /\ ppc = "done"
    /\ pin = AmountExamples.e49500
    /\ pout.pdf = PyNum(4950000, 2)

\* '<int>.<int>,<1-2 digits>': two digit groups, a comma, one or two digits
GroupedForm(str) ==
    LET parts == Split(Body(str), ",")
    IN /\ Len(parts) = 2
       /\ Len(parts[2]) \in 1..2 /\ AllDigits(parts[2])
       /\ LET groups == Split(parts[1], ".")
          IN /\ Len(groups) = 2
             /\ \A i \in 1..2 : groups[i] # <<>> /\ AllDigits(groups[i])

IntegerGroups(str) == DigitsValue(Concat(Split(Split(Body(str), ",")[1], ".")))

FractionDigits(str) == Split(Body(str), ",")[2]

\* a value in integer cents (-1: no number, or finer than cents)
Cents(x) == IF x.t = "num" /\ x.e <= 2 THEN x.m * Pow10(2 - x.e) ELSE -1

\* C16 as stated: on '<int>.<int>,<1-2 digits>' both copies give the
\* concatenated integer groups plus the fractional digits, read as an
\* integer, divided by 100, for one-digit and two-digit fractions alike.
C16_Original ==
    (ppc \in {"vision", "done"} /\ GroupedForm(pin)) =>
        LET cents == 100 * IntegerGroups(pin) + DigitsValue(FractionDigits(pin))
        IN Cents(pout.pdf) = cents /\ Cents(pout.vision) = cents

\* C16: on '<int>.<int>,<1-2 digits>' both copies give the concatenated
\* integer groups plus the fractional digits read as a decimal fraction: a
\* two-digit fraction counts hundredths, a one-digit fraction counts tenths.
C16_GroupedAmountInCents ==
    (ppc \in {"vision", "done"} /\ GroupedForm(pin)) =>
        LET frac == FractionDigits(pin)
            cents == 100 * IntegerGroups(pin) +
                     (IF Len(frac) = 2 THEN DigitsValue(frac)
                      ELSE 10 * DigitsValue(frac))
        IN Cents(pout.pdf) = cents /\ Cents(pout.vision) = cents

\* '1.234,5' normalized to 1234.5 by both copies
C16_Witness ==
    /\ ppc = "done"
    /\ pin = AmountExamples.OneDigit
    /\ GroupedForm(pin)
    /\ pout.pdf = PyNum(12345, 1)
    /\ pout.vision = PyNum(12345, 1)

\* C17 as stated: normalizing the plain decimal string of any value the
\* normalizer gave yields that value again, whatever its fractional digits.
C17_Original ==
    ppc = "done" =>
        /\ pout.pdf.t = "num" => NumEq(pout.pdf2, pout.pdf)
        /\ pout.vision.t = "num" => NumEq(pout.vision2, pout.vision)

\* C17: normalizing the plain decimal string of a value the normalizer gave
\* yields that value again when the value has at most two fractional digits.
C17_IdempotentUpToCents ==
    ppc = "done" =>
        /\ (pout.pdf.t = "num" /\ FracDigits(pout.pdf) <= 2) =>
              NumEq(pout.pdf2, pout.pdf)
        /\ (pout.vision.t = "num" /\ FracDigits(pout.vision) <= 2) =>
              NumEq(pout.vision2, pout.vision)

\* '49850.00' normalized, printed as '49850.0' and normalized to 49850 again
C17_Witness ==
    /\ ppc = "done"
    /\ pin = AmountExamples.Plain
    /\ pout.pdf = PyNum(4985000, 2)
    /\ Plain(pout.pdf) = <<"4", "9", "8", "5", "0", ".", "0">>
    /\ NumEq(pout.pdf2, PyNum(49850, 0))
    /\ NumEq(pout.vision2, PyNum(49850, 0))

\* C18: the normalizer gives a non-negative number or no number: neither
\* copy gives a negative number, and neither gives a number for a string that
\* is not a valid non-negative amount (the capture on the pdf_text path, the
\* model's 'valor' string on the vision path).
C18_NonNegativeOrFailure ==
    ppc \in {"vision", "done"} =>
        /\ pout.pdf.t = "num" =>
              pout.pdf.m >= 0 /\ SpecNormalize(PdfCapture(pin)).t = "num"
        /\ pout.vision.t = "num" =>
              pout.vision.m >= 0 /\ SpecNormalize(pin).t = "num"

\* C19: the recognizer never gives the same matched span (the same
\* identifier occurrence, captured the same way) to both sender_pix_key and
\* receiver_pix_key.
C19_NoCrossAssignment ==
    ppc = "keys" => ~(pout.sender # NoMatch /\ pout.sender = pout.receiver)

\* C20: when the text has no key-bearing label (chave / pix), both key
\* fields are absent.
C20_AbsentWithoutKeyLabel ==
    (ppc = "keys" /\ \A i \in 1..Len(pin) : ~HasKeyLabel(pin[i])) =>
        pout.sender = NoMatch /\ pout.receiver = NoMatch

(***************************************************************************)
(* The recognizers of value, beneficiary, transaction id and date          *)
(***************************************************************************)
\* A text is a sequence of words joined by single blanks; a word is a
\* sequence of characters and the patterns are matched character by
\* character.
UpperLetters == <<"A", "B", "C", "D", "E", "F", "G", "H", "I", "J", "K", "L", "M", "N", "O", "P", "Q", "R", "S", "T", "U", "V", "W", "X", "Y", "Z">>
LowerLetters == <<"a", "b", "c", "d", "e", "f", "g", "h", "i", "j", "k", "l", "m", "n", "o", "p", "q", "r", "s", "t", "u", "v", "w", "x", "y", "z">>

\* re.IGNORECASE on the letters A-Z
CaseFold(c) ==
    IF \E i \in 1..Len(UpperLetters) : UpperLetters[i] = c
    THEN LowerLetters[CHOOSE i \in 1..Len(UpperLetters) : UpperLetters[i] = c]
    ELSE c

RECURSIVE Join(_)
Join(words) ==
    IF words = <<>> THEN <<>>
    ELSE IF Len(words) = 1 THEN Head(words)
    ELSE Head(words) \o <<" ">> \o Join(Tail(words))

\* the lower-case literal lit matches at position i, ignoring case
MatchAt(text, i, lit) ==
    /\ i + Len(lit) - 1 <= Len(text)
    /\ \A k \in 1..Len(lit) : CaseFold(text[i + k - 1]) = lit[k]

\* a greedy X*: the first position from i on whose character is not in set
RECURSIVE SkipSet(_, _, _)
SkipSet(text, i, set) ==
    IF i <= Len(text) /\ text[i] \in set THEN SkipSet(text, i + 1, set) ELSE i

\* [:\s]*R?\$?\s*([\d.,]+) from position j: the capture, <<>> without match
AmountTail(text, j) ==
    LET j1 == SkipSet(text, j, {":", " "})
        j2 == IF j1 <= Len(text) /\ CaseFold(text[j1]) = "r" THEN j1 + 1 ELSE j1
        j3 == IF j2 <= Len(text) /\ text[j2] = "$" THEN j2 + 1 ELSE j2
    IN TakeAmountChars(SubSeq(text, SkipSet(text, j3, {" "}), Len(text)))

\* the literal parts of the patterns (lines 19-68), lower case where the
\* pattern is matched ignoring case
Literal ==
    [ valor |-> <<"v", "a", "l", "o", "r">>,
      quantia |-> <<"q", "u", "a", "n", "t", "i", "a">>,
      total |-> <<"t", "o", "t", "a", "l">>,
      da |-> <<"d", "a">>,
      transacao |-> <<"t", "r", "a", "n", "s", "a", "ç", "ã", "o">>,
      rs |-> <<"r", "$">>,
      favorecido |-> <<"f", "a", "v", "o", "r", "e", "c", "i", "d", "o">>,
      beneficiario |-> <<"b", "e", "n", "e", "f", "i", "c", "i", "a", "r", "i", "o">>,
      beneficiario_acute |-> <<"b", "e", "n", "e", "f", "i", "c", "i", "á", "r", "i", "o">>,
      nome |-> <<"n", "o", "m", "e">>,
      end |-> <<"e", "n", "d">>,
      to |-> <<"t", "o">>,
      Data |-> <<"D", "a", "t", "a">> ]

\* where the label part of a pattern ends when it starts at i (0: no match)
\*   "transacao": Valor\s+da\s+transação
\*   "nome":      (?:favorecido|benefici[aá]rio|nome)
\*   "endtoend":  End\s*to\s*End[:\s]+
\*   "data":      Data[:\s]+, which is searched case-sensitively
LabelEnd(text, i, label) ==
    IF label = "transacao" THEN
        LET a == i + Len(Literal.valor)
            b == SkipSet(text, a, {" "})
            c == SkipSet(text, b + Len(Literal.da), {" "})
        IN IF /\ MatchAt(text, i, Literal.valor)
              /\ b > a /\ MatchAt(text, b, Literal.da)
              /\ c > b + Len(Literal.da) /\ MatchAt(text, c, Literal.transacao)
           THEN c + Len(Literal.transacao)
           ELSE 0
    ELSE IF label = "nome" THEN
        IF MatchAt(text, i, Literal.favorecido) THEN i + Len(Literal.favorecido)
        ELSE IF MatchAt(text, i, Literal.beneficiario) THEN i + Len(Literal.beneficiario)
        ELSE IF MatchAt(text, i, Literal.beneficiario_acute)
             THEN i + Len(Literal.beneficiario_acute)
        ELSE IF MatchAt(text, i, Literal.nome) THEN i + Len(Literal.nome)
        ELSE 0
    ELSE IF label = "endtoend" THEN
        LET a == SkipSet(text, i + Len(Literal.end), {" "})
            b == SkipSet(text, a + Len(Literal.to), {" "})
            c == SkipSet(text, b + Len(Literal.end), {":", " "})
        IN IF /\ MatchAt(text, i, Literal.end) /\ MatchAt(text, a, Literal.to)
              /\ MatchAt(text, b, Literal.end) /\ c > b + Len(Literal.end)
           THEN c
           ELSE 0
    ELSE
        LET j == SkipSet(text, i + Len(Literal.Data), {":", " "})
        IN IF /\ i + Len(Literal.Data) - 1 <= Len(text)
              /\ \A k \in 1..Len(Literal.Data) : text[i + k - 1] = Literal.Data[k]
              /\ j > i + Len(Literal.Data)
           THEN j
           ELSE 0

\* group(1) of re.search(PATTERNS['valor'][n - 1], text, re.IGNORECASE) at
\* start position i, <<>> when the pattern does not match there
ValueAt(text, n, i) ==
    IF n = 1 THEN
        IF MatchAt(text, i, Literal.valor) THEN AmountTail(text, i + Len(Literal.valor)) ELSE <<>>
    ELSE IF n = 2 THEN
        IF MatchAt(text, i, Literal.rs)
        THEN TakeAmountChars(SubSeq(text, SkipSet(text, i + 2, {" "}), Len(text)))
        ELSE <<>>
    ELSE IF n = 3 THEN
        IF MatchAt(text, i, Literal.valor) THEN AmountTail(text, i + Len(Literal.valor))
        ELSE IF MatchAt(text, i, Literal.quantia) THEN AmountTail(text, i + Len(Literal.quantia))
        ELSE IF MatchAt(text, i, Literal.total) THEN AmountTail(text, i + Len(Literal.total))
        ELSE <<>>
    ELSE
        IF LabelEnd(text, i, "transacao") # 0
        THEN AmountTail(text, LabelEnd(text, i, "transacao"))
        ELSE <<>>

\* re.search: the match at the leftmost start
ValueCapture(text, n) ==
    LET starts == {i \in 1..Len(text) : ValueAt(text, n, i) # <<>>}
    IN IF starts = {} THEN <<>> ELSE ValueAt(text, n, Min(starts))

\* the captures of the patterns ns (in that order) that match the text
RECURSIVE MatchedCaptures(_, _)
MatchedCaptures(text, ns) ==
    IF ns = <<>> THEN <<>>
    ELSE (IF ValueCapture(text, Head(ns)) # <<>>
          THEN <<ValueCapture(text, Head(ns))>> ELSE <<>>)
         \o MatchedCaptures(text, Tail(ns))

\* lines 104-137: the loop over PATTERNS['valor'] with break on a parsed
\* capture and continue on a capture that float() rejects
ExtractValue(text) == FirstParsable(MatchedCaptures(text, <<1, 2, 3, 4>>))

Letters ==
    {UpperLetters[i] : i \in 1..Len(UpperLetters)} \cup
    {LowerLetters[i] : i \in 1..Len(LowerLetters)} \cup {"á", "ã", "ç"}

\* label[:\s]+([A-ZÀ-Ú][A-ZÀ-Ú\s]{2,50}) at start position i under
\* re.IGNORECASE: group(1), <<>> when the pattern does not match there
BeneficiaryAt(text, i) ==
    LET j == LabelEnd(text, i, "nome")
        j1 == SkipSet(text, j, {":", " "})
        stop == SkipSet(text, j1 + 1, Letters \cup {" "})
        last == IF stop - 1 > j1 + 50 THEN j1 + 50 ELSE stop - 1
    IN IF /\ j # 0 /\ j1 > j
          /\ j1 <= Len(text) /\ text[j1] \in Letters
          /\ last >= j1 + 2
       THEN SubSeq(text, j1, last)
       ELSE <<>>

\* re.search: the match at the leftmost start
BeneficiaryCapture(text) ==
    LET starts == {i \in 1..Len(text) : BeneficiaryAt(text, i) # <<>>}
    IN IF starts = {} THEN <<>> ELSE BeneficiaryAt(text, Min(starts))

\* lines 162-167: one pattern, match.group(1).strip()
ExtractBeneficiary(text) == Strip(BeneficiaryCapture(text))

NoId == [s |-> <<>>, at |-> 0]

\* (E\d{32}) at position i under re.IGNORECASE
IdAt(text, i) ==
    /\ i + 32 <= Len(text)
    /\ CaseFold(text[i]) = "e"
    /\ \A k \in 1..32 : text[i + k] \in Digits

\* the match of PATTERNS['endtoend'][n - 1]: the captured token and where it
\* starts in the text
IdCapture(text, n) ==
    LET starts ==
            IF n = 1 THEN {i \in 1..Len(text) : IdAt(text, i)}
            ELSE {i \in 1..Len(text) :
                     /\ LabelEnd(text, i, "endtoend") # 0
                     /\ IdAt(text, LabelEnd(text, i, "endtoend"))}
        at == IF n = 1 THEN Min(starts) ELSE LabelEnd(text, Min(starts), "endtoend")
    IN IF starts = {} THEN NoId
       ELSE [s |-> SubSeq(text, at, at + 32), at |-> at]

\* lines 170-175
ExtractEndToEnd(text) ==
    IF IdCapture(text, 1) # NoId THEN IdCapture(text, 1) ELSE IdCapture(text, 2)

DateSeparators == {"/", "-"}

DigitsAt(text, i, n) ==
    i + n - 1 <= Len(text) /\ \A k \in 0..(n - 1) : text[i + k] \in Digits

\* a date at position i: \d{2}[/-]\d{2}[/-]\d{4} when year is 3,
\* \d{4}[-/]\d{2}[-/]\d{2} when year is 1 (the place of the 4-digit group)
DateAt(text, i, year) ==
    LET n1 == IF year = 1 THEN 4 ELSE 2
        n3 == IF year = 3 THEN 4 ELSE 2
    IN /\ i + 9 <= Len(text)
       /\ DigitsAt(text, i, n1) /\ text[i + n1] \in DateSeparators
       /\ DigitsAt(text, i + n1 + 1, 2) /\ text[i + n1 + 3] \in DateSeparators
       /\ DigitsAt(text, i + n1 + 4, n3)

\* group(1) of re.search(PATTERNS['data'][n - 1], text), <<>> without match
DateCapture(text, n) ==
    LET starts ==
            IF n = 1 THEN {i \in 1..Len(text) : DateAt(text, i, 3)}
            ELSE IF n = 2 THEN {i \in 1..Len(text) : DateAt(text, i, 1)}
            ELSE {j \in {LabelEnd(text, i, "data") : i \in 1..Len(text)} \ {0} :
                     DateAt(text, j, 3)}
    IN IF starts = {} THEN <<>> ELSE SubSeq(text, Min(starts), Min(starts) + 9)

\* lines 182-191: the conversion of the captured date (<<>>: data['date']
\* stays None)
DateConvert(date_str) ==
    IF Contains(date_str, "/")
    THEN IF CountChar(date_str, "/") = 2
         THEN LET parts == Split(date_str, "/")
              IN IF Len(parts[1]) = 4
                 THEN ReplaceChar(date_str, "/", "-")
                 ELSE parts[3] \o <<"-">> \o parts[2] \o <<"-">> \o parts[1]
         ELSE <<>>
    ELSE IF Contains(date_str, "-") THEN date_str
    ELSE <<>>

\* lines 178-196: the first pattern that matches is converted, then break
ExtractDate(text) ==
    IF DateCapture(text, 1) # <<>> THEN DateConvert(DateCapture(text, 1))
    ELSE IF DateCapture(text, 2) # <<>> THEN DateConvert(DateCapture(text, 2))
    ELSE IF DateCapture(text, 3) # <<>> THEN DateConvert(DateCapture(text, 3))
    ELSE <<>>

\* the dates written day first and year first, with either separator in
\* either place
ValueWords ==
    { <<"V", "a", "l", "o", "r">>,
      <<"T", "o", "t", "a", "l", ":">>,
      <<"R", "$">>,
      <<"1", "0", ",", "0", "0">>,
      <<"5", "0", ",", "0", "0">>,
      <<".", ".">>,
      <<"d", "a">>,
      <<"t", "r", "a", "n", "s", "a", "ç", "ã", "o">> }

OtherWords ==
    { <<"2", "5">> \o <<a>> \o <<"1", "2">> \o <<b>> \o <<"2", "0", "2", "4">> :
        a \in DateSeparators, b \in DateSeparators } \cup
    { <<"2", "0", "2", "4">> \o <<a>> \o <<"1", "2">> \o <<b>> \o <<"2", "5">> :
        a \in DateSeparators, b \in DateSeparators } \cup
    { <<"D", "a", "t", "a", ":">>,
      <<"E", "n", "d", "T", "o", "E", "n", "d", ":">>,
      <<"E">> \o [i \in 1..32 |-> "7"],
      <<"e">> \o [i \in 1..32 |-> "7"],
      <<"E">> \o [i \in 1..33 |-> "7"],
      <<"E">> \o [i \in 1..31 |-> "7"],
      <<"F", "a", "v", "o", "r", "e", "c", "i", "d", "o", ":">>,
      <<"N", "o", "m", "e">>,
      <<"J", "O", "A", "O">>,
      <<"J", "o">>,
      <<"B", "a", "n", "c", "o">> }

MaxOtherWords == 2

InitFields ==
    /\ InitSys
    /\ client /\ PDF_SUPPORT /\ PDF_TEXT_SUPPORT
    /\ pin \in
        UNION {[1..n -> ValueWords] : n \in 0..MaxTokens} \cup
        UNION {[1..n -> OtherWords] : n \in 0..MaxOtherWords}
    /\ pout = [value |-> PyNone, beneficiary |-> <<>>, endtoend |-> NoId, date |-> <<>>]
    /\ ppc = "page"

MatchValue ==
    /\ ppc = "page"
    /\ pout' = [pout EXCEPT !.value = ExtractValue(Join(pin))]
    /\ ppc' = "value"
    /\ UNCHANGED <<env, tg, sys, pin>>

MatchBeneficiary ==
    /\ ppc = "value"
    /\ pout' = [pout EXCEPT !.beneficiary = ExtractBeneficiary(Join(pin))]
    /\ ppc' = "beneficiary"
    /\ UNCHANGED <<env, tg, sys, pin>>

MatchEndToEnd ==
    /\ ppc = "beneficiary"
    /\ pout' = [pout EXCEPT !.endtoend = ExtractEndToEnd(Join(pin))]
    /\ ppc' = "endtoend"
    /\ UNCHANGED <<env, tg, sys, pin>>

MatchDate ==
    /\ ppc = "endtoend"
    /\ pout' = [pout EXCEPT !.date = ExtractDate(Join(pin))]
    /\ ppc' = "fields"
    /\ UNCHANGED <<env, tg, sys, pin>>

NextFields ==
    \/ MatchValue
    \/ MatchBeneficiary
    \/ MatchEndToEnd
    \/ MatchDate

SpecFields == InitFields /\ [][NextFields]_vars

\* the amount the label-anchored patterns alone give: 'Valor', then
\* 'valor|quantia|total', then 'Valor da transação'
LabelAnchoredValue(text) == FirstParsable(MatchedCaptures(text, <<1, 3, 4>>))

\* C21: when a text has both an amount after one of the labels 'Valor',
\* 'quantia', 'total' and an amount after a bare 'R$', the extracted value is
\* the label-anchored amount.
C21_LabelBeforeBareCurrency ==
    (/\ ppc # "page"
     /\ LabelAnchoredValue(Join(pin)) # PyNone
     /\ ValueCapture(Join(pin), 2) # <<>>) =>
        pout.value = LabelAnchoredValue(Join(pin))

\* the first non-empty capture of a list of captures in pattern order
RECURSIVE FirstCapture(_)
FirstCapture(caps) ==
    IF caps = <<>> THEN <<>>
    ELSE IF Head(caps) # <<>> THEN Head(caps)
    ELSE FirstCapture(Tail(caps))

\* the value the first matching pattern alone determines: its capture
\* normalized, absent when no pattern matches or the capture does not parse
FirstMatchValue(text) ==
    LET cap == FirstCapture(<<ValueCapture(text, 1), ValueCapture(text, 2),
                              ValueCapture(text, 3), ValueCapture(text, 4)>>)
    IN IF cap = <<>> \/ NormalizePdfValue(cap) = ParseError
       THEN PyNone ELSE NormalizePdfValue(cap)

\* C22: every field is determined by the first pattern of its list that
\* matches the text; no later pattern is consulted (value, beneficiary,
\* transaction id and date; the two keys run the same loop).
C22_FirstMatchWins ==
    ppc = "fields" =>
        LET text == Join(pin)
        IN /\ pout.value = FirstMatchValue(text)
           /\ pout.beneficiary = Strip(FirstCapture(<<BeneficiaryCapture(text)>>))
           /\ pout.endtoend.s =
                 FirstCapture(<<IdCapture(text, 1).s, IdCapture(text, 2).s>>)
           /\ pout.date =
                 DateConvert(FirstCapture(<<DateCapture(text, 1), DateCapture(text, 2),
                                            DateCapture(text, 3)>>))

\* YYYY-MM-DD
IsIsoDate(str) ==
    /\ Len(str) = 10
    /\ \A i \in {1, 2, 3, 4, 6, 7, 9, 10} : str[i] \in Digits
    /\ str[5] = "-" /\ str[8] = "-"

\* C23: a date that is present is in YYYY-MM-DD form (DD/MM/YYYY,
\* DD-MM-YYYY and YYYY-MM-DD are all normalized to it).
C23_DateIsIso ==
    (ppc = "fields" /\ pout.date # <<>>) => IsIsoDate(pout.date)

\* C24: a transaction id that is present is an upper-case 'E' followed by
\* exactly 32 digits: not a lower-case 'e' token, not the start of a longer
\* digit run.
C24_IdIsExactToken ==
    (ppc \in {"endtoend", "fields"} /\ pout.endtoend # NoId) =>
        LET text == Join(pin)
            after == pout.endtoend.at + 33
        IN /\ pout.endtoend.s[1] = "E"
           /\ Len(pout.endtoend.s) = 33
           /\ \A k \in 2..33 : pout.endtoend.s[k] \in Digits
           /\ after > Len(text) \/ text[after] \notin Digits

(***************************************************************************)
(* The Telegram bot: fingerprints, duplicate check and upload              *)
(***************************************************************************)
\* the files the messages carry: a photo with text, a blank photo, and a
\* PDF, which PIL cannot open
FileBytes ==
    [ photo |-> <<"J", "P", "G">>,
      blank |-> <<"P", "N", "G">>,
      pdf |-> <<"P", "D", "F">> ]

\* Image.open(io.BytesIO(file_bytes)) succeeds
Decodable(file_bytes) == file_bytes \in {FileBytes.photo, FileBytes.blank}

\* hashlib.sha256(data).hexdigest(), as an injective function of the bytes
Sha256(data) == [alg |-> "sha256", of |-> data]

\* compute_sha256 whose digest also depends on what the backend holds
compute_sha256_stateful(file_bytes) ==
    IF recorded = {} THEN Sha256(file_bytes) ELSE Sha256(file_bytes \o <<"+">>)

compute_sha256(file_bytes) == Sha256(file_bytes)

compute_phash(file_bytes) ==
    IF ~imagehash \/ ~Image THEN NoHash
    ELSE IF Decodable(file_bytes) THEN [alg |-> "phash", of |-> file_bytes]
    ELSE NoHash

\* ''.join(ch for ch in text.lower() if ch.isalnum())
Normalized(text) ==
    SelectSeq([i \in 1..Len(text) |-> CaseFold(text[i])],
              LAMBDA ch : ch \in Letters \cup Digits)

\* pytesseract.image_to_string on a decodable image
LocalText(file_bytes) ==
    IF file_bytes = FileBytes.photo THEN <<"P", "i", "x", " ", "5">> ELSE <<" ">>

Reply(status, text) == [status |-> status, text |-> text]

\* what the chat-completions request can give: a text (not the same on
\* every call), an empty text, an error status, an exception
VisionReplies ==
    {Reply("200", <<"P", "i", "x", " ", "5">>), Reply("200", <<"p", "i", "x", "5", "0">>),
     Reply("200", <<>>), Reply("500", <<>>), Reply("exception", <<>>)}

\* compute_ocr_fingerprint that gives up when the configured vision model
\* gave no text
compute_ocr_fingerprint_no_fallback(file_bytes, reply) ==
    IF OPENAI_API_KEY
    THEN IF reply.status = "200" /\ reply.text # <<>>
         THEN Sha256(Normalized(reply.text)) ELSE NoHash
    ELSE IF pytesseract /\ Image /\ Decodable(file_bytes) /\ LocalText(file_bytes) # <<>>
         THEN Sha256(Normalized(LocalText(file_bytes)))
         ELSE NoHash

\* lines 119-163; every exception is caught inside
compute_ocr_fingerprint(file_bytes, reply) ==
    IF OPENAI_API_KEY /\ reply.status = "200" /\ reply.text # <<>>
    THEN Sha256(Normalized(reply.text))
    ELSE IF pytesseract /\ Image /\ Decodable(file_bytes) /\ LocalText(file_bytes) # <<>>
         THEN Sha256(Normalized(LocalText(file_bytes)))
         ELSE NoHash

InitBot ==
    /\ InitExtractor
    /\ client /\ PDF_SUPPORT /\ PDF_TEXT_SUPPORT
    /\ pin = <<>> /\ pout = <<>> /\ ppc = "off"
    /\ InitHandlers
    \* the backend is persistent: it can hold the fingerprint of the photo
    \* from an earlier run of the bot
    /\ recorded \in {{}, {Sha256(FileBytes.photo)}}
    /\ OPENAI_API_KEY \in BOOLEAN
    /\ Image \in BOOLEAN
    /\ imagehash \in BOOLEAN
    /\ pytesseract \in BOOLEAN

\* process_update starts the handler; it sets the pending reaction
Receive(h, file_bytes) ==
    /\ hpc[h] = "idle"
    /\ hbytes' = [hbytes EXCEPT ![h] = file_bytes]
    /\ reaction' = [reaction EXCEPT ![h] = "pending"]
    /\ hpc' = [hpc EXCEPT ![h] = "download"]
    /\ UNCHANGED <<env, pure, sys, OPENAI_API_KEY, Image, imagehash, pytesseract,
                   hrec, hup, hcount, recorded, uploaded, hdup,
                   last_update_id, server, batch, current, dispatched>>

\* a handler that returns on a failed download without a reaction
DownloadSilent(h, ok) ==
    /\ hpc[h] = "download"
    /\ hpc' = [hpc EXCEPT ![h] = IF ok THEN "check" ELSE "done"]
    /\ UNCHANGED <<env, pure, sys, OPENAI_API_KEY, Image, imagehash, pytesseract,
                   hbytes, hrec, hup, hcount, recorded, uploaded, hdup, reaction,
                   last_update_id, server, batch, current, dispatched>>

\* download_file: the bytes, or None
Download(h, ok) ==
    /\ hpc[h] = "download"
    /\ IF ok
       THEN /\ hpc' = [hpc EXCEPT ![h] = "check"]
            /\ UNCHANGED reaction
       ELSE /\ hpc' = [hpc EXCEPT ![h] = "done"]
            /\ reaction' = [reaction EXCEPT ![h] = "error"]
    /\ UNCHANGED <<env, pure, sys, OPENAI_API_KEY, Image, imagehash, pytesseract,
                   hbytes, hrec, hup, hcount, recorded, uploaded, hdup,
                   last_update_id, server, batch, current, dispatched>>

\* the status-200 answers of the duplicate check: with 'original' an
\* object or missing, and with 'original' null
Status200 == {"200", "200_null_original"}

\* is_duplicate_and_record, lines 171-193, and the duplicate reaction of
\* the handler, lines 460-466: the content hash and the duplicate check.
\* The backend answers with status 200, with another status, or the
\* request raises; a status-200 answer says is_duplicate for a content hash
\* the backend has recorded.  With 'original' null, line 184 raises inside
\* the try and control goes on to the record request.
CheckDuplicate(h, answer) ==
    /\ hpc[h] = "check"
    /\ LET sha == compute_sha256(hbytes[h])
           said == answer \in Status200 /\ sha \in recorded
       IN /\ hrec' = [hrec EXCEPT ![h].sha = sha]
          /\ hcount' = [hcount EXCEPT ![h].sha = @ + 1]
          /\ IF said /\ answer = "200"
             THEN /\ hpc' = [hpc EXCEPT ![h] = "done"]
                  /\ reaction' = [reaction EXCEPT ![h] = "duplicate"]
                  /\ hdup' = [hdup EXCEPT ![h].answer = answer, ![h].said = said,
                                          ![h].ret = "duplicate"]
             ELSE /\ hpc' = [hpc EXCEPT ![h] = "record"]
                  /\ hdup' = [hdup EXCEPT ![h].answer = answer, ![h].said = said]
                  /\ UNCHANGED reaction
    /\ UNCHANGED <<env, pure, sys, OPENAI_API_KEY, Image, imagehash, pytesseract,
                   hbytes, hup, recorded, uploaded,
                   last_update_id, server, batch, current, dispatched>>

\* is_duplicate_and_record, lines 195-222: the other two fingerprints, the
\* record request (posted: the backend stored the fingerprint) and the
\* return of (False, None)
Record(h, reply, posted) ==
    /\ hpc[h] = "record"
    /\ hrec' = [hrec EXCEPT ![h].ocr = compute_ocr_fingerprint(hbytes[h], reply),
                            ![h].phash = compute_phash(hbytes[h]),
                            ![h].reply = reply]
    /\ hcount' = [hcount EXCEPT ![h].ocr = @ + 1, ![h].phash = @ + 1]
    /\ recorded' = IF posted THEN recorded \cup {hrec[h].sha} ELSE recorded
    /\ hdup' = [hdup EXCEPT ![h].ret = "new", ![h].posted = posted]
    /\ hpc' = [hpc EXCEPT ![h] = "upload"]
    /\ UNCHANGED <<env, pure, sys, OPENAI_API_KEY, Image, imagehash, pytesseract,
                   hbytes, hup, reaction, uploaded,
                   last_update_id, server, batch, current, dispatched>>

\* upload_to_backend, lines 301-340, and the terminal reaction handle_photo
\* sets for the upload's answer, lines 471-515
Upload(h, reply, answer) ==
    /\ hpc[h] = "upload"
    /\ hup' = [hup EXCEPT ![h] =
                 [sha |-> compute_sha256(hbytes[h]),
                  ocr |-> compute_ocr_fingerprint(hbytes[h], reply),
                  phash |-> compute_phash(hbytes[h]),
                  reply |-> reply]]
    /\ hcount' = [hcount EXCEPT ![h].sha = @ + 1, ![h].ocr = @ + 1, ![h].phash = @ + 1]
    /\ uploaded' = IF answer # "exception" THEN uploaded \cup {h} ELSE uploaded
    \* the last reaction set: "accepted_value_missing" sets the success
    \* reaction and then raises at line 483 into the handler of line 517;
    \* "partial_not_whitelisted" sets the partial and then the blocked one
    /\ reaction' = [reaction EXCEPT ![h] =
                      IF answer = "accepted" THEN "success"
                      ELSE IF answer = "partial" THEN "partial"
                      ELSE IF answer \in {"not_whitelisted", "partial_not_whitelisted"}
                           THEN "blocked"
                      ELSE "error"]
    /\ hpc' = [hpc EXCEPT ![h] = "done"]
    /\ UNCHANGED <<env, pure, sys, OPENAI_API_KEY, Image, imagehash, pytesseract,
                   hbytes, hrec, recorded, hdup,
                   last_update_id, server, batch, current, dispatched>>

\* one handler thread, with the files, vision replies and upload answers it
\* can meet
StepBot(h, files, checks, replies, answers) ==
    \/ \E file_bytes \in files : Receive(h, file_bytes)
    \/ \E ok \in BOOLEAN : Download(h, ok)
    \/ \E answer \in checks : CheckDuplicate(h, answer)
    \* a call of compute_ocr_fingerprint asks the vision model only with a key
    \/ \E reply \in replies \cap (IF OPENAI_API_KEY THEN VisionReplies ELSE {NoReply}),
          posted \in BOOLEAN : Record(h, reply, posted)
    \/ \E reply \in replies \cap (IF OPENAI_API_KEY THEN VisionReplies ELSE {NoReply}),
          answer \in answers : Upload(h, reply, answer)

MainHandler == "h1"

\* one message at a time
NextBot ==
    StepBot(MainHandler, {FileBytes[k] : k \in DOMAIN FileBytes},
            Status200 \cup {"500", "exception"},
            VisionReplies \cup {NoReply},
            {"accepted", "accepted_value_missing", "partial", "partial_not_whitelisted",
             "rejected", "not_whitelisted", "exception"})

SpecBot == InitBot /\ [][NextBot]_vars

\* a started handler thread keeps running: every request it makes has a
\* timeout (lines 139, 178, 213, 268, 281, 291, 329), so each step returns
\* or raises
SpecBotLive == SpecBot /\ WF_vars(NextBot)

\* two messages handled in concurrent threads
NextBotConc ==
    \E h \in Handlers :
        StepBot(h, {FileBytes.photo, FileBytes.pdf},
                {"200", "500"},
                {Reply("200", <<"P", "i", "x", " ", "5">>), Reply("exception", <<>>),
                 NoReply},
                {"accepted", "exception"})

SpecBotConc == InitBot /\ [][NextBotConc]_vars

\* the polling loop alone: no handler thread is looked at
InitPoll ==
    /\ Init
    /\ client /\ PDF_SUPPORT /\ PDF_TEXT_SUPPORT

\* the largest update id the polling loop is run with
MaxUpdates == 3

\* Telegram receives a message: update ids ascend
Arrive(id) ==
    /\ \A u \in server : u < id
    /\ server' = server \cup {id}
    /\ UNCHANGED <<env, pure, sys, OPENAI_API_KEY, Image, imagehash, pytesseract,
                   hpc, hbytes, hrec, hup, hcount, reaction, recorded, uploaded,
                   hdup, last_update_id, batch, current, dispatched>>

\* main, line 708, and get_updates, lines 606-622: the updates from the
\* offset on in ascending order (the first n of them), or [] when the
\* request fails; with offset None Telegram gives every update it holds
GetUpdates(ok, n) ==
    /\ batch = <<>> /\ current = <<>>
    /\ LET pending == {u \in server : last_update_id = <<>> \/ u >= last_update_id[1]}
           result == CHOOSE s \in [1..Cardinality(pending) -> pending] :
                         \A i \in DOMAIN s, j \in DOMAIN s : i < j => s[i] < s[j]
       IN /\ n <= Cardinality(pending)
          /\ batch' = IF ok THEN SubSeq(result, 1, n) ELSE <<>>
          /\ ok \/ n = 0
    /\ UNCHANGED <<env, pure, sys, OPENAI_API_KEY, Image, imagehash, pytesseract,
                   hpc, hbytes, hrec, hup, hcount, reaction, recorded, uploaded,
                   hdup, last_update_id, server, current, dispatched>>

\* main, line 711, and process_update, lines 628-629: the next update of the
\* batch, and the offset set past it
Advance ==
    /\ batch # <<>> /\ current = <<>>
    /\ current' = <<Head(batch)>>
    /\ batch' = Tail(batch)
    /\ last_update_id' = <<Head(batch) + 1>>
    /\ UNCHANGED <<env, pure, sys, OPENAI_API_KEY, Image, imagehash, pytesseract,
                   hpc, hbytes, hrec, hup, hcount, reaction, recorded, uploaded,
                   hdup, server, dispatched>>

\* a polling loop that takes the offset back when the handler raised
DispatchOrRetry(kind) ==
    /\ current # <<>>
    /\ dispatched' = IF kind = "none" THEN dispatched
                     ELSE Append(dispatched, [id |-> current[1], kind |-> kind])
    /\ last_update_id' = IF kind = "raises" THEN current ELSE last_update_id
    /\ current' = <<>>
    /\ UNCHANGED <<env, pure, sys, OPENAI_API_KEY, Image, imagehash, pytesseract,
                   hpc, hbytes, hrec, hup, hcount, reaction, recorded, uploaded,
                   hdup, server, batch>>

\* process_update, lines 631-673, and main, lines 714-716: the update has
\* no message for a handler ("none"), a command handler runs and returns
\* ("command") or raises into the except of line 714 ("raises"), or a
\* handler thread is started for a photo or a PDF ("thread")
Dispatch(kind) ==
    /\ current # <<>>
    /\ dispatched' = IF kind = "none" THEN dispatched
                     ELSE Append(dispatched, [id |-> current[1], kind |-> kind])
    /\ current' = <<>>
    /\ UNCHANGED <<env, pure, sys, OPENAI_API_KEY, Image, imagehash, pytesseract,
                   hpc, hbytes, hrec, hup, hcount, reaction, recorded, uploaded,
                   hdup, last_update_id, server, batch>>

NextPoll ==
    \/ \E id \in 1..MaxUpdates : Arrive(id)
    \/ \E ok \in BOOLEAN, n \in 0..MaxUpdates : GetUpdates(ok, n)
    \/ Advance
    \/ \E kind \in {"none", "command", "raises", "thread"} : Dispatch(kind)

SpecPoll == InitPoll /\ [][NextPoll]_vars

\* the content hashes a handler has computed so far
ContentHashes(h) == {hrec[h].sha, hup[h].sha} \ {NoHash}

C26_FingerprintsDerivedOnce ==
    \A h \in Handlers :
        (hpc[h] = "done" /\ hup[h].sha # NoHash) =>
            /\ hcount[h].sha <= 1 /\ hcount[h].ocr <= 1 /\ hcount[h].phash <= 1
            /\ hrec[h].sha = hup[h].sha
            /\ hrec[h].ocr = hup[h].ocr
            /\ hrec[h].phash = hup[h].phash

\* the text the vision model gave for a reply, <<>> when there is none
VisionTextOf(reply) ==
    IF OPENAI_API_KEY /\ reply.status = "200" THEN reply.text ELSE <<>>

\* the text the local OCR engine gives, <<>> when there is none
LocalTextOf(file_bytes) ==
    IF pytesseract /\ Image /\ Decodable(file_bytes) THEN LocalText(file_bytes) ELSE <<>>

\* the OCR fingerprints a handler computed, each with the reply it saw
OcrRuns(h) ==
    (IF hpc[h] \in {"upload", "done"} /\ hcount[h].ocr >= 1 THEN {hrec[h]} ELSE {}) \cup
    (IF hup[h].sha # NoHash THEN {hup[h]} ELSE {})

\* C27 as stated: the text comes from the vision model when a key is
\* configured and otherwise from the local engine; the result is None exactly
\* when no method gives a text; nothing is raised.
C27_Original ==
    \A h \in Handlers : \A run \in OcrRuns(h) :
        LET vt == VisionTextOf(run.reply)
            lt == LocalTextOf(hbytes[h])
        IN /\ run.ocr.alg \in {"none", "sha256"}
           /\ (run.ocr = NoHash) <=> (vt = <<>> /\ lt = <<>>)
           /\ OPENAI_API_KEY => run.ocr \in {NoHash, Sha256(Normalized(vt))}
           /\ ~OPENAI_API_KEY => run.ocr \in {NoHash, Sha256(Normalized(lt))}

\* C27: the text comes from the vision model when a key is configured and
\* the model gives a text, and otherwise (no key, or no text from the model)
\* from the local engine; the result is None exactly when no method gives a
\* text; nothing is raised.
C27_OcrSourceAndAbsence ==
    \A h \in Handlers : \A run \in OcrRuns(h) :
        LET vt == VisionTextOf(run.reply)
            lt == LocalTextOf(hbytes[h])
        IN /\ run.ocr.alg \in {"none", "sha256"}
           /\ (run.ocr = NoHash) <=> (vt = <<>> /\ lt = <<>>)
           /\ vt # <<>> => run.ocr = Sha256(Normalized(vt))
           /\ (vt = <<>> /\ lt # <<>>) => run.ocr = Sha256(Normalized(lt))

\* a key is configured, the request raised, and the hash is that of the
\* local engine's text
C27_Witness ==
    /\ OPENAI_API_KEY
    /\ hpc[MainHandler] = "upload"
    /\ hbytes[MainHandler] = FileBytes.photo
    /\ hrec[MainHandler].reply = Reply("exception", <<>>)
    /\ hrec[MainHandler].ocr = Sha256(<<"p", "i", "x", "5">>)

\* the temporary file of t exists after the step: os.remove did not delete it
RemoveFailed(t) ==
    /\ temp_file[t] \notin {<<None>>, <<Unbound>>}
    /\ fs'[temp_file[t]] # "absent"

\* C28: a failed deletion of the temporary file does not change the outcome:
\* the success path still returns the record built from the response, the
\* handler still returns the error record of the primary error, and nothing
\* is raised.
C28_CleanupFailureNotMasking ==
    [][\A t \in Threads :
          /\ (pc[t] = "cleanup" /\ pc'[t] # "cleanup" /\ RemoveFailed(t)) =>
                IF v[t].t = "obj"
                THEN pc'[t] = "handler" /\ err'[t] = "'>' not supported"
                ELSE /\ pc'[t] = "done"
                     /\ ret'[t] = VisionRecord(obs[t].resp, v[t])
                     /\ ~obs'[t].raised
          /\ (pc[t] = "handler" /\ pc'[t] # "handler" /\ RemoveFailed(t)) =>
                /\ pc'[t] = "done"
                /\ ret'[t] = ErrorRecord(err[t])
                /\ ~obs'[t].raised]_vars

\* a success record was returned although the temporary file is still there
C28_Witness ==
    /\ pc[Main] = "done"
    /\ temp_file[Main] \notin {<<None>>, <<Unbound>>}
    /\ fs[temp_file[Main]] # "absent"
    /\ obs[Main].vend = "returned"
    /\ ret[Main] = VisionRecord(obs[Main].resp, v[Main])
    /\ ret[Main].success

\* the invocation of t holds a temporary raster file
HoldsTemp(t) ==
    /\ pc[t] \notin {"idle", "done"}
    /\ temp_file[t] \notin {<<None>>, <<Unbound>>}

\* C29: no temporary raster file is shared: two invocations in progress
\* never hold the same temporary path, so none writes, reads or deletes the
\* file of the other.
C29_TempFileNotShared ==
    \A t \in Threads, u \in Threads :
        (t # u /\ HoldsTemp(t) /\ HoldsTemp(u)) => temp_file[t] # temp_file[u]

(***************************************************************************)
(* The model's answer: code fence and JSON parsing                         *)
(***************************************************************************)
\* A response is a sequence of pieces: "fence" (three backquotes), "json" (these four
\* letters), "{" and "}", " " (white space, a newline included) and "a" (any
\* other text).  An object of the schema is "{", the pieces of a string
\* value, "}".
MaxValuePieces == 3

\* answers that are no JSON object
MalformedAnswers == {<<>>, <<"a">>, <<"{", "a">>, <<"a", "}">>}

\* the answer inside a fenced block, after the language tag (<<>>: no tag)
Fenced(tag, answer) == <<"fence">> \o tag \o <<" ">> \o answer \o <<" ", "fence">>

\* lines 205-207: strip, and when a fence occurs take what follows the
\* first fence, drop every 'json' and strip again
StripFence(content) ==
    LET raw == Strip(content)
    IN IF Contains(raw, "fence")
       THEN Strip(RemoveChar(Split(raw, "fence")[2], "json"))
       ELSE raw

ParseFailure == [ok |-> FALSE, value |-> <<>>]

\* line 209, json.loads and the use of the result as a dict: the value of
\* the object, or an exception
JsonLoads(raw) ==
    IF /\ Len(raw) >= 2
       /\ raw[1] = "{" /\ raw[Len(raw)] = "}"
       /\ \A i \in 2..(Len(raw) - 1) : raw[i] \notin {"{", "}"}
    THEN [ok |-> TRUE, value |-> SubSeq(raw, 2, Len(raw) - 1)]
    ELSE ParseFailure

InitFence ==
    /\ InitSys
    /\ client /\ PDF_SUPPORT /\ PDF_TEXT_SUPPORT
    \* the objects of the schema, with every field value up to the bound, and
    \* the malformed answers
    /\ pin \in
        { <<"{">> \o val \o <<"}">> :
            val \in UNION {[1..n -> {"a", "json", "fence", " "}] : n \in 0..MaxValuePieces} } \cup
        MalformedAnswers
    /\ pout = [bare |-> ParseFailure, fenced |-> ParseFailure, tagged |-> ParseFailure]
    /\ ppc = "answer"

\* the answer as it is
ParseBare ==
    /\ ppc = "answer"
    /\ pout' = [pout EXCEPT !.bare = JsonLoads(StripFence(pin))]
    /\ ppc' = "bare"
    /\ UNCHANGED <<env, tg, sys, pin>>

\* the answer in a fenced block
ParseFenced ==
    /\ ppc = "bare"
    /\ pout' = [pout EXCEPT !.fenced = JsonLoads(StripFence(Fenced(<<>>, pin)))]
    /\ ppc' = "fenced"
    /\ UNCHANGED <<env, tg, sys, pin>>

\* the answer in a fenced block tagged json
ParseTagged ==
    /\ ppc = "fenced"
    /\ pout' = [pout EXCEPT !.tagged = JsonLoads(StripFence(Fenced(<<"json">>, pin)))]
    /\ ppc' = "parsed"
    /\ UNCHANGED <<env, tg, sys, pin>>

NextFence ==
    \/ ParseBare
    \/ ParseFenced
    \/ ParseTagged

SpecFence == InitFence /\ [][NextFence]_vars

\* C30: stripping the fence is transparent: an object of the schema parses
\* to its own field value bare, fenced and fenced with the json tag,
\* whatever its value contains; an answer that is no JSON object fails.
C30_FenceTransparent ==
    ppc = "parsed" =>
        IF pin \in MalformedAnswers
        THEN ~pout.bare.ok /\ ~pout.fenced.ok /\ ~pout.tagged.ok
        ELSE LET expected == [ok |-> TRUE, value |-> SubSeq(pin, 2, Len(pin) - 1)]
             IN /\ pout.bare = expected
                /\ pout.fenced = expected
                /\ pout.tagged = expected

(***************************************************************************)
(* The PIX key normalizer as a pure function                               *)
(***************************************************************************)
\* the longest key the normalizer is run on
MaxKeyLen == 4

\* pix_utils.normalize_pix_key, lines 6-23, on None or a str; the result
\* is a str
normalize_pix_key(pix) ==
    IF pix = PyNone THEN <<>>
    ELSE LET s == Strip([i \in 1..Len(pix.s) |-> CaseFold(pix.s[i])])
             startswith(p) == Len(s) >= Len(p) /\ SubSeq(s, 1, Len(p)) = p
             rest == IF startswith(<<"p", "i", "x", ":">>)
                     THEN Strip(SubSeq(s, 5, Len(s)))
                     ELSE IF startswith(<<"p", "i", "x", " ">>)
                     THEN Strip(SubSeq(s, 5, Len(s)))
                     ELSE IF s = <<"p", "i", "x">> THEN <<>>
                     ELSE s
         IN SelectSeq(rest, LAMBDA c : c \notin {" ", "-", ".", "/", "(", ")", ":", "\\"})

\* None, and every string of the prefix letters, a digit and the
\* characters the function removes
InitKey ==
    /\ InitSys
    /\ client /\ PDF_SUPPORT /\ PDF_TEXT_SUPPORT
    /\ LET alphabet == {"p", "i", "x", "P", "1", " ", "-", ".", "/", "(", ")", ":", "\\"}
       IN pin \in {PyNone} \cup
                  {PyStr(s) : s \in UNION {[1..n -> alphabet] : n \in 0..MaxKeyLen}}
    /\ pout = [once |-> <<>>, twice |-> <<>>]
    /\ ppc = "key"

\* the normalizer on the key
NormalizeKey ==
    /\ ppc = "key"
    /\ pout' = [pout EXCEPT !.once = normalize_pix_key(pin)]
    /\ ppc' = "once"
    /\ UNCHANGED <<env, tg, sys, pin>>

\* the normalizer on its own output
NormalizeAgain ==
    /\ ppc = "once"
    /\ pout' = [pout EXCEPT !.twice = normalize_pix_key(PyStr(pout.once))]
    /\ ppc' = "twice"
    /\ UNCHANGED <<env, tg, sys, pin>>

NextKey ==
    \/ NormalizeKey
    \/ NormalizeAgain

SpecKey == InitKey /\ [][NextKey]_vars

(***************************************************************************)
(* Claims on the vision call and the process-wide state                    *)
(***************************************************************************)
\* the ends of a vision attempt that failed
VisionFailures == {"upstream_error", "malformed", "parse_error", "type_error"}

\* C31: each invocation issues at most one vision-model call; once its
\* vision attempt has failed the invocation only handles the failure and
\* returns the failure record, it never calls again.
C31_AtMostOneVisionCall ==
    \A t \in Threads :
        /\ obs[t].ncalls <= 1
        /\ obs[t].vend \in VisionFailures =>
              /\ pc[t] \in {"handler", "done"}
              /\ pc[t] = "done" => IsErrorRecord(ret[t])

\* an invocation whose only vision call failed has returned
C31_Witness ==
    /\ pc[Main] = "done"
    /\ obs[Main].ncalls = 1
    /\ obs[Main].vend = "upstream_error"
    /\ IsErrorRecord(ret[Main])

\* the invocation of thread t ended without reaching the vision call: by
\* text-layer success, unsupported extension, missing client, missing
\* rasterizer or rasterization failure
EndedBeforeVision(t) ==
    /\ pc[t] = "done"
    /\ \/ obs[t].text = "success"
       \/ ArgExt(t) \notin SupportedExts
       \/ ~client
       \/ ArgExt(t) = ".pdf" /\ ~PDF_SUPPORT
       \/ err[t] \in {"convert_from_path failed", "could not convert PDF", "save failed"}

\* C32: an invocation changes no module global but last_openai_call_time;
\* the timestamp is written only by the step that issues the vision-model
\* call, invocations that end before the vision call made no such step, and
\* the timestamp never decreases.
C32_TimestampFrame ==
    [][/\ env' = env
       /\ last_openai_call_time' # last_openai_call_time =>
             \E t \in Threads :
                 /\ pc[t] = "stamp" /\ pc'[t] = "await"
                 /\ obs'[t].ncalls = obs[t].ncalls + 1
       /\ \A t \in Threads :
             (pc[t] # "done" /\ EndedBeforeVision(t)') => obs'[t].ncalls = 0
       /\ last_openai_call_time' >= last_openai_call_time]_vars

\* C33: without a vision client every invocation returns the record with
\* error 'OpenAI not configured' at once, whatever the input: no text-layer
\* attempt, no wait, no rasterization, no temporary file, no vision call,
\* and last_openai_call_time and the files stay as they were.
C33_NoClientFailsFirst ==
    ~client =>
        /\ last_openai_call_time = 0
        /\ calls = <<>>
        /\ \A p \in DOMAIN fs : fs[p] = InitialContent(p)
        /\ \A t \in Threads :
              /\ pc[t] \in {"idle", "done"}
              /\ pc[t] = "done" =>
                    /\ ret[t] = ErrorRecord("OpenAI not configured")
                    /\ ~obs[t].raised
                    /\ obs[t].text = "none" /\ ~obs[t].slept
                    /\ ~obs[t].raster /\ ~obs[t].wrote
                    /\ obs[t].ncalls = 0

\* without a client, an invocation on a PDF whose text layer could be read
\* has returned
C33_Witness ==
    /\ ~client /\ PDF_TEXT_SUPPORT
    /\ pc[Main] = "done"
    /\ ArgExt(Main) = ".pdf" /\ fs[obs[Main].arg] = "pdf"
    /\ ret[Main] = ErrorRecord("OpenAI not configured")

\* C34: the two copies of the currency normalization agree: for every
\* non-empty string over digits, '.' and ',' the pdf_text copy and the
\* vision copy give the same number, or both fail to parse.
C34_CopiesEquivalent ==
    (/\ ppc \in {"vision", "done"}
     /\ pin # <<>>
     /\ \A i \in 1..Len(pin) : pin[i] \in AmountChars) =>
        SameOutcome(pout.pdf, pout.vision)

(***************************************************************************)
(* Claims on the duplicate check and the handlers                          *)
(***************************************************************************)
\* C35: is_duplicate_and_record returns (True, info) exactly when the
\* duplicate check answered with status 200 and is_duplicate true, and then
\* records nothing; in every other case it attempts the record request and
\* returns (False, None).
C35_DuplicateExactlyWhenSaid ==
    \A h \in Handlers :
        hdup[h].answer # "none" =>
            IF hdup[h].answer \in Status200 /\ hdup[h].said
            THEN /\ hdup[h].ret = "duplicate"
                 /\ hcount[h].ocr = 0 /\ hcount[h].phash = 0
                 /\ ~hdup[h].posted
            ELSE \/ hpc[h] = "record"
                 \/ hdup[h].ret = "new" /\ hcount[h].ocr >= 1

\* C36: when the same bytes arrive in two messages handled in concurrent
\* threads, and the backend answers both duplicate checks and stores every
\* fingerprint it is sent, at most one of the two is uploaded and the other
\* is answered as a duplicate.
C36_OneUploadPerContent ==
    \A h \in Handlers : \A g \in Handlers \ {h} :
        (/\ hpc[h] = "done" /\ hpc[g] = "done"
         /\ hbytes[h] = hbytes[g]
         /\ hdup[h].answer = "200" /\ hdup[g].answer = "200"
         /\ hdup[h].ret = "new" => hdup[h].posted
         /\ hdup[g].ret = "new" => hdup[g].posted) =>
            /\ ~(h \in uploaded /\ g \in uploaded)
            /\ "duplicate" \in {reaction[h], reaction[g]}

\* the reactions a handler ends with
TerminalReactions == {"success", "partial", "duplicate", "blocked", "error"}

\* C37: every handler run that set the pending reaction eventually sets a
\* terminal reaction on the message, on every path (download failure,
\* duplicate, any upload answer, any exception), and never ends with only
\* the pending reaction.
C37_PendingLeadsToTerminal ==
    /\ [](\A h \in Handlers : hpc[h] = "done" => reaction[h] \in TerminalReactions)
    /\ \A h \in Handlers :
           (reaction[h] = "pending") ~> (reaction[h] \in TerminalReactions)

\* a run whose upload reached the backend and ended in the handler's
\* except branch or in the rejection branch
C37_Witness ==
    /\ hpc[MainHandler] = "done"
    /\ MainHandler \in uploaded
    /\ reaction[MainHandler] = "error"

(***************************************************************************)
(* Claims on the polling loop                                              *)
(***************************************************************************)
\* C38: last_update_id is set to the update's id plus one before the
\* update's handler runs and is still that when the update is processed;
\* the polling offset never decreases, and no update is dispatched to a
\* handler more than once, even when a handler raised.
C38_OffsetAdvancesFirst ==
    /\ [](current # <<>> => last_update_id = <<current[1] + 1>>)
    /\ [](\A i \in DOMAIN dispatched, j \in DOMAIN dispatched :
              i # j => dispatched[i].id # dispatched[j].id)
    /\ [][/\ (current # <<>> /\ current' = <<>>) => last_update_id' = <<current[1] + 1>>
          /\ last_update_id' # last_update_id =>
                 /\ last_update_id' # <<>>
                 /\ last_update_id = <<>> \/ last_update_id'[1] > last_update_id[1]]_vars

\* a handler raised, the loop went on to a later update, and every update
\* that arrived has been processed
C38_Witness ==
    /\ Len(dispatched) >= 2
    /\ dispatched[1].kind = "raises"
    /\ batch = <<>> /\ current = <<>>
    /\ last_update_id = <<dispatched[Len(dispatched)].id + 1>>
    /\ \A u \in server : u < last_update_id[1]

(***************************************************************************)
(* Claims on the PIX key normalizer                                        *)
(***************************************************************************)
\* C39: normalize_pix_key is idempotent: applied to its own output it gives
\* the output again; the output holds no whitespace and none of - . / ( )
\* : \ ; None gives the empty string.
C39_KeyNormalizerIdempotent ==
    ppc = "twice" =>
        /\ pout.twice = pout.once
        /\ \A i \in 1..Len(pout.once) :
               pout.once[i] \notin {" ", "-", ".", "/", "(", ")", ":", "\\"}
        /\ pin = PyNone => pout.once = <<>>

====
